---- MODULE Spec2Model ----
(***************************************************************************)
(* A model of the Goodreads scrapers of bookscrape: the ID predicate, the  *)
(* author and book scrapers with their backoff retries, the resolution of  *)
(* a (title, author) cue and the batch driver.                             *)
(*                                                                         *)
(* A string is a sequence of characters; a character is one token of       *)
(* Chars, each standing for a class of Python characters.                  *)
(***************************************************************************)
EXTENDS Integers, Sequences, FiniteSets, TLC

VARIABLES
    \* SpecId
    text,        \* the string handed to is_goodreads_id
    idChecked,   \* is_goodreads_id has returned
    idResult,    \* what it returned
    \* Spec: the scraped entity
    kind,        \* "author": AuthorScraper(cue).scrape(ext); "book": BookScraper(cue).scrape()
    \* Spec: AuthorScraper (the top-level one, or the SimpleAuthorScraper of a contributor)
    a_pc,        \* "idle", "new", "ready", "try", "exc", "done", "raised"
    a_cue,       \* the constructor's argument
    author_id,   \* self._author_id: None or an ID
    author_name, \* self._author_name: None or a name
    a_ext,       \* extended_top_books as passed to scrape()
    a_useExt,    \* extended_top_books of the running scrape / scrape_with_backoff
    a_backoff,   \* inside scrape_with_backoff
    a_elapsed,   \* on_exception: seconds since its start, read at the top of its loop
    a_n,         \* on_exception: values drawn from backoff.expo so far
    a_exc,       \* the exception in flight or raised
    a_findCalls, \* calls of find_author_id by this scraper
    a_pageReqs,  \* requests of the author page by this scraper
    \* Spec: BookScraper
    b_pc,        \* "idle", "new", "ready", "book_page", "authors", "series_id", "series",
                 \* "shelves", "editions", "exc", "done", "raised"
    b_cue,       \* the constructor's argument
    book_id,     \* self._book_id
    series_id,   \* self._series_id: None or an ID
    b_backoff,   \* inside scrape_with_backoff
    b_elapsed,
    b_n,
    b_exc,
    b_failedStep,  \* the step whose exception is in b_exc
    b_attempts,    \* calls of _scrape_book in this scrape()
    b_primaryReqs, \* requests of the book page in this scrape()
    b_primaryDone, \* _parse_book_page has returned in this call of _scrape_book
    b_secReqs,     \* series, shelves and editions requests of this call of _scrape_book
    b_contribLeft, \* contributors of the authors line still to scrape
    b_seriesPage,  \* what the series page of this call held: "none", "empty", "items"
    series,        \* the local series of _scrape_book: None or a BookSeries
    edPage,        \* the last editions page requested by this call of _scrape_editions
    edRaw,         \* entries counted on the pages of this call of _scrape_editions
    total_editions, \* the local total_editions of _scrape_editions: None or a count
    edFirstTotal,  \* the count page 1 of this call of _scrape_editions showed, None before
    edFailed,      \* a Timeout or HTTPError has hit an editions page in this scrape()
    refetched,     \* primary, series or shelves requested after edFailed
    \* Spec: the requests sent to the host and the throttling between them
    lastReq,     \* the last request sent: "none" or its kind
    gap,         \* since it: "start", "none", "throttled", "raised"
    prevReq,     \* the request before the last one
    prevGap,     \* what lay between the two
    \* SpecBatch: dump_authors(*authors) of scrape/goodreads
    authors,       \* the arguments
    d_pc,          \* "idle", "loop", "fetch", "exc", "raised", "dumped", "aborted"
    d_i,           \* the authors the loop has taken
    p_author_id,   \* parser._author_id
    p_author_name, \* parser._author_name
    d_elapsed,     \* on_exception of fetch_data_with_backoff: seconds since its start
    d_n,           \* on_exception: values drawn from backoff.expo so far
    d_exc,         \* the exception in flight
    d_findCalls,   \* calls of find_author_id by this dump_authors
    data_authors,  \* data["authors"]
    dump,          \* None, or the authors of the file written by this dump_authors
    d_refresh,     \* this dump_authors is the one update_authors calls
    \* SpecFind: BookScraper.find_book_id(title, author, authors_data)
    f_pc,          \* "idle", "call", "fetch", "extended", "done", "raised"
    title,
    f_author,
    authors_data,  \* None or the Author objects
    id_,           \* the local id_ of find_book_id, at the end what it returns
    f_lookups,     \* calls of book_id_from_data
    f_scrapes,     \* calls of AuthorScraper.scrape by fetch_book_id
    \* SpecMatch: _find_book_in_author_books(author, title)
    m_pc,          \* "idle", "call", "done"
    m_version,     \* "provider": scrape/provider/goodreads, "goodreads": scrape/goodreads
    top_books,     \* author.top_books
    m_title,       \* title
    m_book,        \* what it returned: None or a Book
    \* SpecDist: RatingsDistribution(distribution, rank_scheme) and its queries
    r_pc,          \* "idle", "new", "ready", "done", "raised"
    distribution,  \* the argument: a function from its ranks to their votes
    rank_scheme,   \* the argument: a sequence of ranks
    r_dist,        \* self._dist: the (rank, votes) pairs by rank
    r_rank_scheme, \* self._rank_scheme
    r_query,       \* "none", "scaled_dist", "avg_rating", "ratings_percent"
    r_exc,         \* "none" or the exception raised
    r_scaled,      \* what scaled_dist returned
    r_value,       \* what avg_rating or ratings_percent returned
    \* Renown.calculate
    c_pc,          \* "idle", "new", "validated", "done" or "raised"
    ratings,       \* the argument ratings
    model_ratings, \* the argument model_ratings
    fractions,     \* the argument fractions
    c_renown,      \* the member of Renown returned, "none" before
    c_exc,         \* the exception raised, "none" if none
    \* SpecName: AuthorScraper.normalize_name(author_name)
    n_pc,          \* "idle", "loop", "done"
    n_author_name, \* the argument
    n_i,           \* the characters the loop has taken
    chars,         \* the local chars
    underscore_appended,\* the local underscore_appended
    \* SpecShelves: the loop of BookScraper._parse_shelves_page
    s_pc,          \* "idle", "loop", "done"
    shelf_tags,    \* the 'shelfStat' tags of the page: names and shelvings
    s_i,           \* the tags the loop has taken
    shelves        \* the local shelves: the (shelvings, name) items in order

idVars == <<text, idChecked, idResult>>

authorVars == <<a_pc, a_cue, author_id, author_name, a_ext, a_useExt, a_backoff,
                a_elapsed, a_n, a_exc, a_findCalls, a_pageReqs>>

bookVars == <<b_pc, b_cue, book_id, series_id, b_backoff, b_elapsed, b_n, b_exc,
              b_failedStep, b_attempts, b_primaryReqs, b_primaryDone, b_secReqs,
              b_contribLeft, b_seriesPage, series, edPage, edRaw, edFailed, refetched,
              total_editions, edFirstTotal>>

reqVars == <<lastReq, gap, prevReq, prevGap>>

scrapeVars == <<kind, authorVars, bookVars, reqVars>>

batchVars == <<authors, d_pc, d_i, p_author_id, p_author_name, d_elapsed, d_n, d_exc,
               d_findCalls, data_authors, dump, d_refresh>>

findVars == <<f_pc, title, f_author, authors_data, id_, f_lookups, f_scrapes>>

matchVars == <<m_pc, m_version, top_books, m_title, m_book>>

distVars == <<r_pc, distribution, rank_scheme, r_dist, r_rank_scheme, r_query, r_exc,
              r_scaled, r_value>>

renownVars == <<c_pc, ratings, model_ratings, fractions, c_renown, c_exc>>

nameVars == <<n_pc, n_author_name, n_i, chars, underscore_appended>>

shelfVars == <<s_pc, shelf_tags, s_i, shelves>>

pureVars == <<matchVars, distVars, renownVars, nameVars, shelfVars>>

vars == <<idVars, scrapeVars, batchVars, findVars, pureVars>>

----------------------------------------------------------------------------
(* The values of the variables of a machine that a specification does not  *)
(* run                                                                     *)

None == <<>>

IdIdle ==
    /\ text = <<>>
    /\ idChecked = FALSE
    /\ idResult = FALSE

AuthorIdle ==
    /\ a_pc = "idle"
    /\ a_cue = <<>>
    /\ author_id = None
    /\ author_name = None
    /\ a_ext = FALSE
    /\ a_useExt = FALSE
    /\ a_backoff = FALSE
    /\ a_elapsed = 0
    /\ a_n = 0
    /\ a_exc = "none"
    /\ a_findCalls = 0
    /\ a_pageReqs = 0

BookIdle ==
    /\ b_pc = "idle"
    /\ b_cue = <<>>
    /\ book_id = <<>>
    /\ series_id = None
    /\ b_backoff = FALSE
    /\ b_elapsed = 0
    /\ b_n = 0
    /\ b_exc = "none"
    /\ b_failedStep = "none"
    /\ b_attempts = 0
    /\ b_primaryReqs = 0
    /\ b_primaryDone = FALSE
    /\ b_secReqs = 0
    /\ b_contribLeft = 0
    /\ b_seriesPage = "none"
    /\ series = None
    /\ edPage = 0
    /\ edRaw = 0
    /\ edFailed = FALSE
    /\ refetched = FALSE
    /\ total_editions = None
    /\ edFirstTotal = None

ReqIdle ==
    /\ lastReq = "none"
    /\ gap = "start"
    /\ prevReq = "none"
    /\ prevGap = "start"

ScrapeIdle ==
    /\ kind = "none"
    /\ AuthorIdle
    /\ BookIdle
    /\ ReqIdle

BatchIdle ==
    /\ authors = <<>>
    /\ d_pc = "idle"
    /\ d_i = 0
    /\ p_author_id = None
    /\ p_author_name = None
    /\ d_elapsed = 0
    /\ d_n = 0
    /\ d_exc = "none"
    /\ d_findCalls = 0
    /\ data_authors = <<>>
    /\ dump = None
    /\ d_refresh = FALSE

MatchIdle ==
    /\ m_pc = "idle"
    /\ m_version = "none"
    /\ top_books = <<>>
    /\ m_title = <<>>
    /\ m_book = None

DistIdle ==
    /\ r_pc = "idle"
    /\ distribution = <<>>
    /\ rank_scheme = <<>>
    /\ r_dist = <<>>
    /\ r_rank_scheme = <<>>
    /\ r_query = "none"
    /\ r_exc = "none"
    /\ r_scaled = <<>>
    /\ r_value = <<>>

RenownIdle ==
    /\ c_pc = "idle"
    /\ ratings = 0
    /\ model_ratings = 0
    /\ fractions = <<>>
    /\ c_renown = "none"
    /\ c_exc = "none"

NameIdle ==
    /\ n_pc = "idle"
    /\ n_author_name = <<>>
    /\ n_i = 0
    /\ chars = <<>>
    /\ underscore_appended = FALSE

ShelfIdle ==
    /\ s_pc = "idle"
    /\ shelf_tags = <<>>
    /\ s_i = 0
    /\ shelves = <<>>

PureIdle == MatchIdle /\ DistIdle /\ RenownIdle /\ NameIdle /\ ShelfIdle

FindIdle ==
    /\ f_pc = "idle"
    /\ title = <<>>
    /\ f_author = <<>>
    /\ authors_data = None
    /\ id_ = None
    /\ f_lookups = 0
    /\ f_scrapes = 0

----------------------------------------------------------------------------
(* Characters and strings *)

\* longest string of the ID checks
MaxLen == 4

\* "7": an ASCII digit, "a": an ASCII letter, "l_stroke": a non-ASCII letter
\* (the l-stroke of 'Stanislaw Lem'), " ": whitespace
Chars == {"7", "a", ".", "-", "_", " ", "l_stroke"}

isdigit(c) == c = "7"

isalpha(c) == c \in {"a", "l_stroke"}

isascii(c) == c # "l_stroke"

isalnum(c) == isalpha(c) \/ isdigit(c)

StringsUpTo(n) == UNION {[1..k -> Chars] : k \in 0..n}

Contains(s, c) == \E i \in 1..Len(s) : s[i] = c

AllChars(s, P(_)) == \A i \in 1..Len(s) : P(s[i])

\* index of the first occurrence of c in s (s contains c)
FirstIndex(s, c) == CHOOSE i \in 1..Len(s) : s[i] = c /\ \A j \in 1..(i - 1) : s[j] # c

----------------------------------------------------------------------------
(* is_goodreads_id *)

\* left, *right = text.split(sep): the part before the first separator
SplitLeft(s, sep) == SubSeq(s, 1, FirstIndex(s, sep) - 1)

\* "".join(right): what follows the first separator, the separators removed
SplitRightJoined(s, sep) ==
    LET NotSep(c) == c # sep
    IN  SelectSeq(SubSeq(s, FirstIndex(s, sep) + 1, Len(s)), NotSep)

RightCharOk(c) == (isalnum(c) /\ isascii(c)) \/ c \in {"_", "-"}

\* is_goodreads_id of scrape/goodreads/utils.py, the one AuthorParser uses:
\* it has no numeric-only branch
goodreads_utils_is_goodreads_id(s) ==
    IF Len(s) <= 2 THEN FALSE
    ELSE IF Contains(s, ".") /\ Contains(s, "-") THEN FALSE
    ELSE IF ~Contains(s, ".") /\ ~Contains(s, "-") THEN FALSE
    ELSE LET sep == IF Contains(s, ".") THEN "." ELSE "-"
         IN  AllChars(SplitLeft(s, sep), isdigit)
             /\ AllChars(SplitRightJoined(s, sep), RightCharOk)

\* the predicate of the provider package without its numeric-only branch
is_goodreads_id_no_numeric(s) == goodreads_utils_is_goodreads_id(s)

\* a predicate that takes every string for an ID
is_goodreads_id_of_any(s) == TRUE

\* is_goodreads_id of scrape/provider/goodreads/utils.py
is_goodreads_id(s) ==
    IF AllChars(s, isdigit) THEN TRUE
    ELSE IF Len(s) <= 2 THEN FALSE
    ELSE IF Contains(s, ".") /\ Contains(s, "-") THEN FALSE
    ELSE IF ~Contains(s, ".") /\ ~Contains(s, "-") THEN FALSE
    ELSE LET sep == IF Contains(s, ".") THEN "." ELSE "-"
         IN  AllChars(SplitLeft(s, sep), isdigit)
             /\ AllChars(SplitRightJoined(s, sep), RightCharOk)

----------------------------------------------------------------------------
(* Optional values, exceptions, inputs *)

Some(x) == <<x>>

\* a test that takes every value for a missing one
FalsyAlways(opt) == TRUE

\* Python's truth value of an optional string: None and "" are false
Falsy(opt) == IF opt = None THEN TRUE ELSE opt[1] = <<>>

\* the exceptions retried, with ParsingError among them
TransientAndParsing == {"Timeout", "HTTPError", "ParsingError"}

Transient == {"Timeout", "HTTPError"}

\* longest of the cues of every shape handed to an AuthorScraper
MaxCueLen == 2

\* most contributors on a book page's authors line
MaxContributors == 2

\* the IDs the pages hold: url2id returns only non-empty strings that
\* is_goodreads_id accepts
FoundAuthorId == <<"7", ".", "a">>

ContributorId == <<"7", "7", ".", "a">>

FoundSeriesId == <<"7", "-", "a">>

\* the author's name as the author page renders it
PageAuthorName == <<"a", " ", "a">>

Min(x, y) == IF x <= y THEN x ELSE y

----------------------------------------------------------------------------
(* sanitize_input / sanitize_output: strip, then collapse each run of       *)
(* whitespace to one space (the tables of proper names and the curly       *)
(* apostrophe have no character in Chars)                                  *)

isspace(c) == c = " "

RECURSIVE LStrip(_)
LStrip(s) == IF s # <<>> /\ isspace(Head(s)) THEN LStrip(Tail(s)) ELSE s

RECURSIVE RStrip(_)
RStrip(s) ==
    IF s # <<>> /\ isspace(s[Len(s)]) THEN RStrip(SubSeq(s, 1, Len(s) - 1)) ELSE s

\* re.sub(r"\s{2,}", " ", text)
RECURSIVE CollapseSpaces(_)
CollapseSpaces(s) ==
    IF Len(s) < 2 THEN s
    ELSE IF isspace(s[1]) /\ isspace(s[2]) THEN CollapseSpaces(Tail(s))
    ELSE <<s[1]>> \o CollapseSpaces(Tail(s))

sanitize_output(s) == CollapseSpaces(RStrip(LStrip(s)))

sanitize_input(s) == sanitize_output(s)

----------------------------------------------------------------------------
(* throttled, and the record of the requests *)

\* the fetch steps decorated with @throttled(THROTTLING_DELAY); the book page
\* is fetched by the undecorated _parse_book_page
IsThrottledAllButShelves(r) == r \notin {"book_page", "shelves"}

IsThrottled(r) == r # "book_page"

\* what follows a request inside its step: the step raises (throttled's wrapper
\* is left before throttle), or it returns and the wrapper throttles, or it
\* returns undecorated
GapAfter(r, raised) ==
    IF raised THEN "raised" ELSE IF IsThrottled(r) THEN "throttled" ELSE "none"

SendRequest(r, how) ==
    /\ prevReq' = lastReq
    /\ prevGap' = gap
    /\ lastReq' = r
    /\ gap' = how

----------------------------------------------------------------------------
(* backoff.on_exception(backoff.expo, (Timeout, HTTPError), max_time=60)   *)

MaxTime == 60

\* seconds one call of the decorated function takes before it raises
AttemptTime == 30

\* backoff.expo: 1, 2, 4, ...; beyond 2^6 every value is cut to what is left
\* of max_time anyway
Expo(n) == IF n >= 6 THEN 64 ELSE 2 ^ n

\* max_time_exceeded, with the bound never reached
GiveUpNever(elapsed) == FALSE

\* max_time_exceeded = elapsed >= max_time
GiveUp(elapsed) == elapsed >= MaxTime

\* _next_wait: full jitter draws from [0, value], then min(seconds, max_time - elapsed);
\* the two ends of the interval are modelled
Waits(n, elapsed) == {0, Min(Expo(n), MaxTime - elapsed)}

----------------------------------------------------------------------------
(* AuthorScraper *)

\* AuthorScraper(cue), not yet constructed
AuthorNew(cue, ext) ==
    /\ a_pc' = "new"
    /\ a_cue' = cue
    /\ author_id' = None
    /\ author_name' = None
    /\ a_ext' = ext
    /\ a_useExt' = FALSE
    /\ a_backoff' = FALSE
    /\ a_elapsed' = 0
    /\ a_n' = 0
    /\ a_exc' = "none"
    /\ a_findCalls' = 0
    /\ a_pageReqs' = 0

\* the scraper is dropped
AuthorDrop ==
    /\ a_pc' = "idle"
    /\ a_cue' = <<>>
    /\ author_id' = None
    /\ author_name' = None
    /\ a_ext' = FALSE
    /\ a_useExt' = FALSE
    /\ a_backoff' = FALSE
    /\ a_elapsed' = 0
    /\ a_n' = 0
    /\ a_exc' = "none"
    /\ a_findCalls' = 0
    /\ a_pageReqs' = 0

\* __init__
AConstruct ==
    /\ UNCHANGED a_pageReqs
    /\ a_pc = "new"
    /\ a_pc' = "ready"
    /\ IF is_goodreads_id(a_cue)
       THEN author_id' = Some(a_cue) /\ author_name' = None
       ELSE author_id' = None /\ author_name' = Some(sanitize_input(a_cue))
    /\ UNCHANGED <<a_cue, a_ext, a_useExt, a_backoff, a_elapsed, a_n, a_exc, a_findCalls>>
    /\ UNCHANGED <<idVars, pureVars, batchVars, findVars, kind, bookVars, reqVars>>

\* scrape(extended_top_books): the try block is entered
AScrape ==
    /\ UNCHANGED a_pageReqs
    /\ a_pc = "ready"
    /\ a_pc' = "try"
    /\ a_backoff' = FALSE
    /\ a_useExt' = a_ext
    /\ UNCHANGED <<a_cue, author_id, author_name, a_ext, a_elapsed, a_n, a_exc, a_findCalls>>
    /\ UNCHANGED <<idVars, pureVars, batchVars, findVars, kind, bookVars, reqVars>>

ARaise(e) ==
    /\ a_pc' = "exc"
    /\ a_exc' = e

\* if not self.author_id: self._author_id = self.find_author_id(self.author_name)
AFindAuthorId ==
    /\ UNCHANGED a_pageReqs
    /\ a_pc = "try"
    /\ Falsy(author_id)
    /\ a_findCalls' = a_findCalls + 1
    /\ IF author_name = None
       THEN \* author_name.split() on None, before any request
            /\ ARaise("AttributeError")
            /\ UNCHANGED <<author_id, reqVars>>
       ELSE \E o \in {"ok", "Timeout", "HTTPError", "ParsingError"} :
            /\ SendRequest("search", GapAfter("search", o # "ok"))
            /\ IF o = "ok"
               THEN author_id' = Some(FoundAuthorId) /\ UNCHANGED <<a_pc, a_exc>>
               ELSE ARaise(o) /\ UNCHANGED author_id
    /\ UNCHANGED <<a_cue, author_name, a_ext, a_useExt, a_backoff, a_elapsed, a_n>>
    /\ UNCHANGED <<idVars, pureVars, batchVars, findVars, kind, bookVars>>

\* _parse_author_page(extended_top_books): _parse_author_page_contents (throttled),
\* then the rows of the book table
AParseAuthorPage ==
    /\ a_pc = "try"
    /\ a_pageReqs' = a_pageReqs + 1
    /\ ~Falsy(author_id)
    /\ \E o \in {"ok", "Timeout", "HTTPError", "AttributeError", "name_ParsingError",
                 "stats_ParsingError", "row_ParsingError"} :
        \* raised inside _parse_author_page_contents, before its wrapper throttles
        LET inContents == o \notin {"ok", "row_ParsingError"}
        IN  /\ SendRequest("author_page", GapAfter("author_page", inContents))
            /\ author_name' = IF o \in {"ok", "stats_ParsingError", "row_ParsingError"}
                              THEN Some(PageAuthorName) ELSE author_name
            /\ IF o = "ok" THEN a_pc' = "done" /\ UNCHANGED a_exc
               ELSE IF o \in {"name_ParsingError", "stats_ParsingError", "row_ParsingError"}
               THEN ARaise("ParsingError")
               ELSE ARaise(o)
    /\ UNCHANGED <<a_cue, author_id, a_ext, a_useExt, a_backoff, a_elapsed, a_n, a_findCalls>>
    /\ UNCHANGED <<idVars, pureVars, batchVars, findVars, kind, bookVars>>

\* scrape: except HTTPError: return self.scrape_with_backoff()
ACatchHTTPError ==
    /\ UNCHANGED a_pageReqs
    /\ a_pc = "exc"
    /\ ~a_backoff
    /\ a_exc = "HTTPError"
    /\ a_pc' = "try"
    /\ a_exc' = "none"
    /\ a_backoff' = TRUE
    /\ a_useExt' = FALSE
    /\ a_elapsed' = 0
    /\ a_n' = 0
    /\ UNCHANGED <<a_cue, author_id, author_name, a_ext, a_findCalls>>
    /\ UNCHANGED <<idVars, pureVars, batchVars, findVars, kind, bookVars, reqVars>>

\* scrape: except Timeout: return self.scrape_with_backoff(extended_top_books)
ACatchTimeout ==
    /\ UNCHANGED a_pageReqs
    /\ a_pc = "exc"
    /\ ~a_backoff
    /\ a_exc = "Timeout"
    /\ a_pc' = "try"
    /\ a_exc' = "none"
    /\ a_backoff' = TRUE
    /\ a_useExt' = a_ext
    /\ a_elapsed' = 0
    /\ a_n' = 0
    /\ UNCHANGED <<a_cue, author_id, author_name, a_ext, a_findCalls>>
    /\ UNCHANGED <<idVars, pureVars, batchVars, findVars, kind, bookVars, reqVars>>

\* on_exception: the bound is not exceeded: sleep, then call again
ABackoffRetry ==
    /\ UNCHANGED a_pageReqs
    /\ a_pc = "exc"
    /\ a_backoff
    /\ a_exc \in Transient
    /\ ~GiveUp(a_elapsed)
    /\ \E s \in Waits(a_n, a_elapsed) : a_elapsed' = a_elapsed + AttemptTime + s
    /\ a_n' = a_n + 1
    /\ a_pc' = "try"
    /\ a_exc' = "none"
    /\ UNCHANGED <<a_cue, author_id, author_name, a_ext, a_useExt, a_backoff, a_findCalls>>
    /\ UNCHANGED <<idVars, pureVars, batchVars, findVars, kind, bookVars, reqVars>>

\* on_exception: max_time exceeded: raise
ABackoffGiveUp ==
    /\ UNCHANGED a_pageReqs
    /\ a_pc = "exc"
    /\ a_backoff
    /\ a_exc \in Transient
    /\ GiveUp(a_elapsed)
    /\ a_pc' = "raised"
    /\ UNCHANGED <<a_cue, author_id, author_name, a_ext, a_useExt, a_backoff, a_elapsed,
                   a_n, a_exc, a_findCalls>>
    /\ UNCHANGED <<idVars, pureVars, batchVars, findVars, kind, bookVars, reqVars>>

\* any other exception leaves scrape
APropagate ==
    /\ UNCHANGED a_pageReqs
    /\ a_pc = "exc"
    /\ a_exc \notin Transient
    /\ a_pc' = "raised"
    /\ UNCHANGED <<a_cue, author_id, author_name, a_ext, a_useExt, a_backoff, a_elapsed,
                   a_n, a_exc, a_findCalls>>
    /\ UNCHANGED <<idVars, pureVars, batchVars, findVars, kind, bookVars, reqVars>>

----------------------------------------------------------------------------
(* BookScraper *)

\* the editions listing holds 100 entries a page
PageSize == 100

\* the page number the loop of _scrape_editions compares with
MaxEditionsPages == 10

\* whether an ID holds a digit for numeric_id's re.search(r"\d+")
HasDigit(s) == \E i \in 1..Len(s) : isdigit(s[i])

\* __init__ with a string cue
BConstruct ==
    /\ UNCHANGED <<total_editions, edFirstTotal>>
    /\ b_pc = "new"
    /\ IF is_goodreads_id(b_cue)
       THEN /\ book_id' = b_cue
            /\ b_pc' = "ready"
            /\ UNCHANGED <<b_exc, b_failedStep>>
       ELSE /\ b_pc' = "raised"
            /\ b_exc' = "ValueError"
            /\ b_failedStep' = "init"
            /\ UNCHANGED book_id
    /\ UNCHANGED <<b_cue, series_id, b_backoff, b_elapsed, b_n, b_attempts, b_primaryReqs,
                   b_primaryDone, b_secReqs, b_contribLeft, b_seriesPage, series, edPage,
                   edRaw, edFailed, refetched>>
    /\ UNCHANGED <<idVars, pureVars, batchVars, findVars, kind, authorVars, reqVars>>

\* the step _scrape_book starts with, resuming at the editions
AttemptStartPcResume == IF edFailed THEN "editions" ELSE "book_page"

\* the step _scrape_book starts with, skipping the book page
AttemptStartPcShelves == "shelves"

\* the step _scrape_book starts with: _parse_book_page
AttemptStartPc == "book_page"

\* a call of _scrape_book: its locals are fresh
StartAttempt ==
    /\ b_pc' = AttemptStartPc
    /\ b_attempts' = b_attempts + 1
    /\ b_primaryDone' = FALSE
    /\ b_secReqs' = 0
    /\ b_contribLeft' = 0
    /\ b_seriesPage' = "none"
    /\ series' = None
    /\ edPage' = 0
    /\ edRaw' = 0
    /\ total_editions' = None
    /\ edFirstTotal' = None

\* scrape(): the try block is entered
BScrape ==
    /\ b_pc = "ready"
    /\ StartAttempt
    /\ b_backoff' = FALSE
    /\ UNCHANGED <<b_cue, book_id, series_id, b_elapsed, b_n, b_exc, b_failedStep,
                   b_primaryReqs, edFailed, refetched>>
    /\ UNCHANGED <<idVars, pureVars, batchVars, findVars, kind, authorVars, reqVars>>

BRaise(step, e) ==
    /\ b_pc' = "exc"
    /\ b_exc' = e
    /\ b_failedStep' = step

\* _parse_book_page: getsoup, _parse_meta_script_tag, _parse_title and the
\* contributor tags of _parse_authors_line
BParseBookPage ==
    /\ UNCHANGED <<total_editions, edFirstTotal>>
    /\ b_pc = "book_page"
    /\ b_primaryReqs' = b_primaryReqs + 1
    /\ refetched' = (refetched \/ edFailed)
    /\ \E o \in {"ok", "Timeout", "HTTPError", "ParsingError"} :
        /\ SendRequest("book_page", GapAfter("book_page", o # "ok"))
        /\ IF o = "ok"
           THEN /\ b_pc' = "authors"
                /\ \E nc \in 1..MaxContributors : b_contribLeft' = nc
                /\ UNCHANGED <<b_exc, b_failedStep>>
           ELSE /\ BRaise("book_page", o)
                /\ UNCHANGED b_contribLeft
    /\ UNCHANGED <<b_cue, book_id, series_id, b_backoff, b_elapsed, b_n, b_attempts,
                   b_primaryDone, b_secReqs, b_seriesPage, series, edPage, edRaw, edFailed>>
    /\ UNCHANGED <<idVars, pureVars, batchVars, findVars, kind, authorVars>>

\* _parse_authors_line: SimpleAuthorScraper(author_id) of the next contributor
BContributorNew ==
    /\ b_pc = "authors"
    /\ b_contribLeft > 0
    /\ a_pc = "idle"
    /\ AuthorNew(ContributorId, FALSE)
    /\ UNCHANGED <<idVars, pureVars, batchVars, findVars, kind, bookVars, reqVars>>

\* _parse_authors_line: its scrape() has returned
BContributorDone ==
    /\ UNCHANGED <<total_editions, edFirstTotal>>
    /\ b_pc = "authors"
    /\ a_pc = "done"
    /\ b_contribLeft' = b_contribLeft - 1
    /\ AuthorDrop
    /\ UNCHANGED <<b_pc, b_cue, book_id, series_id, b_backoff, b_elapsed, b_n, b_exc,
                   b_failedStep, b_attempts, b_primaryReqs, b_primaryDone, b_secReqs,
                   b_seriesPage, series, edPage, edRaw, edFailed, refetched>>
    /\ UNCHANGED <<idVars, pureVars, batchVars, findVars, kind, reqVars>>

\* _parse_authors_line: its scrape() has raised, and the exception leaves
\* _parse_book_page
BContributorRaised ==
    /\ UNCHANGED <<total_editions, edFirstTotal>>
    /\ b_pc = "authors"
    /\ a_pc = "raised"
    /\ BRaise("authors", a_exc)
    /\ AuthorDrop
    /\ UNCHANGED <<b_cue, book_id, series_id, b_backoff, b_elapsed, b_n,
                   b_attempts, b_primaryReqs, b_primaryDone, b_secReqs, b_contribLeft,
                   b_seriesPage, series, edPage, edRaw, edFailed, refetched>>
    /\ UNCHANGED <<idVars, pureVars, batchVars, findVars, kind, reqVars>>

\* the rest of _parse_book_page (_parse_series_id, _parse_first_publication), then
\* in _scrape_book the assignment of the work ID and _set_secondary_urls, whose
\* numeric_id(self.book_id) raises ValueError on an ID without a digit
BParseSeriesId ==
    /\ UNCHANGED <<total_editions, edFirstTotal>>
    /\ b_pc = "authors"
    /\ b_contribLeft = 0
    /\ a_pc = "idle"
    /\ \E o \in {"link", "nolink", "ParsingError"} :
        IF o = "ParsingError"
        THEN /\ BRaise("book_page", "ParsingError")
             /\ UNCHANGED <<series_id, b_primaryDone>>
        ELSE /\ series_id' = IF o = "link" THEN Some(FoundSeriesId) ELSE None
             /\ IF HasDigit(book_id)
                THEN /\ b_primaryDone' = TRUE
                     /\ b_pc' = IF o = "link" THEN "series" ELSE "shelves"
                     /\ UNCHANGED <<b_exc, b_failedStep>>
                ELSE /\ BRaise("secondary_urls", "ValueError")
                     /\ UNCHANGED b_primaryDone
    /\ UNCHANGED <<b_cue, book_id, b_backoff, b_elapsed, b_n, b_attempts, b_primaryReqs,
                   b_secReqs, b_contribLeft, b_seriesPage, series, edPage, edRaw, edFailed,
                   refetched>>
    /\ UNCHANGED <<idVars, pureVars, batchVars, findVars, kind, authorVars, reqVars>>

\* _parse_series_page on a page with a title and no valid 'Book N' item, raising
SeriesOfEmptyPageRaises == "ParsingError"

\* _parse_series_page on a page with a title and no valid 'Book N' item:
\* return None
SeriesOfEmptyPage == "None"

\* series = self._parse_series_page() if self.series_id else None
BParseSeriesPage ==
    /\ UNCHANGED <<total_editions, edFirstTotal>>
    /\ b_pc = "series"
    /\ b_secReqs' = b_secReqs + 1
    /\ refetched' = (refetched \/ edFailed)
    /\ \E o \in {"items", "empty", "Timeout", "HTTPError", "no_title", "no_book_link"} :
        LET res == IF o = "items" THEN "BookSeries"
                   ELSE IF o = "empty" THEN SeriesOfEmptyPage
                   ELSE IF o \in Transient THEN o
                   ELSE "ParsingError"
            returns == res \in {"BookSeries", "None"}
        IN  /\ SendRequest("series", GapAfter("series", ~returns))
            /\ b_seriesPage' = IF o \in {"items", "empty"} THEN o ELSE b_seriesPage
            /\ IF returns
               THEN /\ series' = IF res = "None" THEN None ELSE Some(res)
                    /\ b_pc' = "shelves"
                    /\ UNCHANGED <<b_exc, b_failedStep>>
               ELSE /\ BRaise("series", res)
                    /\ UNCHANGED series
    /\ UNCHANGED <<b_cue, book_id, series_id, b_backoff, b_elapsed, b_n, b_attempts,
                   b_primaryReqs, b_primaryDone, b_contribLeft, edPage, edRaw, edFailed>>
    /\ UNCHANGED <<idVars, pureVars, batchVars, findVars, kind, authorVars>>

\* shelves, total_shelves = self._parse_shelves_page()
BParseShelvesPage ==
    /\ UNCHANGED <<total_editions, edFirstTotal>>
    /\ b_pc = "shelves"
    /\ b_secReqs' = b_secReqs + 1
    /\ refetched' = (refetched \/ edFailed)
    /\ \E o \in {"ok", "Timeout", "HTTPError", "ParsingError"} :
        /\ SendRequest("shelves", GapAfter("shelves", o # "ok"))
        /\ IF o = "ok"
           THEN b_pc' = "editions" /\ UNCHANGED <<b_exc, b_failedStep>>
           ELSE BRaise("shelves", o)
    /\ UNCHANGED <<b_cue, book_id, series_id, b_backoff, b_elapsed, b_n, b_attempts,
                   b_primaryReqs, b_primaryDone, b_contribLeft, b_seriesPage, series,
                   edPage, edRaw, edFailed>>
    /\ UNCHANGED <<idVars, pureVars, batchVars, findVars, kind, authorVars>>

\* if editions_count < 100 or i > 10: break
EditionsBreak(count, i) == count < PageSize \/ i > MaxEditionsPages

\* the counts the span of 'left workInfo' on page 1 may show: fewer than one
\* page, and more than the pages the loop takes
TotalsOnPageOne == {PageSize - 1, PageSize * (MaxEditionsPages + 2)}

\* the total_editions _parse_editions_page returns: parsed if page == 1, else None
ParsedTotals(page) ==
    IF page = 1 THEN {Some(v) : v \in TotalsOnPageOne} ELSE {None}

\* a total_editions that is the number of the entries counted so far
CountedTotal(i, parsed, kept, counted) == Some(counted)

\* if i == 1: total_editions = total
KeptTotal(i, parsed, kept, counted) == IF i = 1 THEN parsed ELSE kept

\* _scrape_editions: one turn of its loop, _parse_editions_page(i, editions), and
\* after its last turn the test of total_editions and the return
BParseEditionsPage ==
    /\ b_pc = "editions"
    /\ b_secReqs' = b_secReqs + 1
    /\ edPage' = edPage + 1
    /\ \E o \in {"full", "partial", "none", "Timeout", "HTTPError", "ParsingError"} :
        \* the total of page 1 is parsed, or ParsingError is raised, on page 1 only
        /\ o = "ParsingError" => edPage = 0
        /\ LET count == IF o = "full" THEN PageSize
                        ELSE IF o = "partial" THEN PageSize - 1 ELSE 0
               raised == o \in {"Timeout", "HTTPError", "ParsingError"}
           IN  /\ SendRequest("editions", GapAfter("editions", raised))
               /\ IF raised
                  THEN /\ BRaise("editions", o)
                       /\ edFailed' = (edFailed \/ o \in Transient)
                       /\ UNCHANGED <<edRaw, total_editions, edFirstTotal>>
                  ELSE /\ edRaw' = edRaw + count
                       /\ \E parsed \in ParsedTotals(edPage + 1) :
                            /\ total_editions' =
                                  KeptTotal(edPage + 1, parsed, total_editions, edRaw + count)
                            /\ edFirstTotal' = IF edPage = 0 THEN parsed ELSE edFirstTotal
                       /\ IF ~EditionsBreak(count, edPage + 1)
                          THEN b_pc' = "editions" /\ UNCHANGED <<b_exc, b_failedStep>>
                          ELSE IF total_editions' = None
                          THEN BRaise("editions", "ParsingError")
                          ELSE b_pc' = "done" /\ UNCHANGED <<b_exc, b_failedStep>>
                       /\ UNCHANGED edFailed
    /\ UNCHANGED <<b_cue, book_id, series_id, b_backoff, b_elapsed, b_n, b_attempts,
                   b_primaryReqs, b_primaryDone, b_contribLeft, b_seriesPage, series,
                   refetched>>
    /\ UNCHANGED <<idVars, pureVars, batchVars, findVars, kind, authorVars>>

\* scrape: except HTTPError / except Timeout: return self.scrape_with_backoff()
BCatchTransient ==
    /\ b_pc = "exc"
    /\ ~b_backoff
    /\ b_exc \in Transient
    /\ StartAttempt
    /\ b_backoff' = TRUE
    /\ b_elapsed' = 0
    /\ b_n' = 0
    /\ b_exc' = "none"
    /\ b_failedStep' = "none"
    /\ UNCHANGED <<b_cue, book_id, series_id, b_primaryReqs, edFailed, refetched>>
    /\ UNCHANGED <<idVars, pureVars, batchVars, findVars, kind, authorVars, reqVars>>

\* on_exception: the bound is not exceeded: sleep, then call _scrape_book again
BBackoffRetry ==
    /\ b_pc = "exc"
    /\ b_backoff
    /\ b_exc \in Transient
    /\ ~GiveUp(b_elapsed)
    /\ \E s \in Waits(b_n, b_elapsed) : b_elapsed' = b_elapsed + AttemptTime + s
    /\ b_n' = b_n + 1
    /\ StartAttempt
    /\ b_exc' = "none"
    /\ b_failedStep' = "none"
    /\ UNCHANGED <<b_cue, book_id, series_id, b_backoff, b_primaryReqs, edFailed, refetched>>
    /\ UNCHANGED <<idVars, pureVars, batchVars, findVars, kind, authorVars, reqVars>>

\* on_exception: max_time exceeded: raise
BBackoffGiveUp ==
    /\ UNCHANGED <<total_editions, edFirstTotal>>
    /\ b_pc = "exc"
    /\ b_backoff
    /\ b_exc \in Transient
    /\ GiveUp(b_elapsed)
    /\ b_pc' = "raised"
    /\ UNCHANGED <<b_cue, book_id, series_id, b_backoff, b_elapsed, b_n, b_exc,
                   b_failedStep, b_attempts, b_primaryReqs, b_primaryDone, b_secReqs,
                   b_contribLeft, b_seriesPage, series, edPage, edRaw, edFailed, refetched>>
    /\ UNCHANGED <<idVars, pureVars, batchVars, findVars, kind, authorVars, reqVars>>

\* any other exception leaves scrape
BPropagate ==
    /\ UNCHANGED <<total_editions, edFirstTotal>>
    /\ b_pc = "exc"
    /\ b_exc \notin Transient
    /\ b_pc' = "raised"
    /\ UNCHANGED <<b_cue, book_id, series_id, b_backoff, b_elapsed, b_n, b_exc,
                   b_failedStep, b_attempts, b_primaryReqs, b_primaryDone, b_secReqs,
                   b_contribLeft, b_seriesPage, series, edPage, edRaw, edFailed, refetched>>
    /\ UNCHANGED <<idVars, pureVars, batchVars, findVars, kind, authorVars, reqVars>>

----------------------------------------------------------------------------
(* Spec: one scraper, of an author or of a book, from its construction to  *)
(* the return or the exception of its scrape()                             *)

\* the book cues: both forms of an ID, the numeric-only form, the empty
\* string, an ID without a digit and a string that is no ID
BookCues == {<<"7", ".", "a">>, <<"7", "-", "a">>, <<"7">>, <<>>, <<".", "a", "a">>,
             <<"a", " ", "a">>}

\* the author cues: every string of at most MaxCueLen characters, and with
\* them both forms of an ID, an ID without a digit and a full name
AuthorCues == StringsUpTo(MaxCueLen)
              \cup {<<"7", ".", "a">>, <<"7", "-", "a">>, <<".", "a", "a">>, <<"a", " ", "a">>}

ScrapeInit ==
    /\ ReqIdle
    /\ \/ /\ kind = "author"
          /\ BookIdle
          /\ \E cue \in AuthorCues, ext \in BOOLEAN :
                /\ a_pc = "new"
                /\ a_cue = cue
                /\ a_ext = ext
          /\ author_id = None
          /\ author_name = None
          /\ a_useExt = FALSE
          /\ a_backoff = FALSE
          /\ a_elapsed = 0
          /\ a_n = 0
          /\ a_exc = "none"
          /\ a_findCalls = 0
          /\ a_pageReqs = 0
       \/ /\ kind = "book"
          /\ AuthorIdle
          /\ b_pc = "new"
          /\ b_cue \in BookCues
          /\ book_id = <<>>
          /\ series_id = None
          /\ b_backoff = FALSE
          /\ b_elapsed = 0
          /\ b_n = 0
          /\ b_exc = "none"
          /\ b_failedStep = "none"
          /\ b_attempts = 0
          /\ b_primaryReqs = 0
          /\ b_primaryDone = FALSE
          /\ b_secReqs = 0
          /\ b_contribLeft = 0
          /\ b_seriesPage = "none"
          /\ series = None
          /\ edPage = 0
          /\ edRaw = 0
          /\ edFailed = FALSE
          /\ refetched = FALSE
          /\ total_editions = None
          /\ edFirstTotal = None

Init == IdIdle /\ BatchIdle /\ FindIdle /\ PureIdle /\ ScrapeInit

Next ==
    \/ AConstruct
    \/ AScrape
    \/ AFindAuthorId
    \/ AParseAuthorPage
    \/ ACatchHTTPError
    \/ ACatchTimeout
    \/ ABackoffRetry
    \/ ABackoffGiveUp
    \/ APropagate
    \/ BConstruct
    \/ BScrape
    \/ BParseBookPage
    \/ BContributorNew
    \/ BContributorDone
    \/ BContributorRaised
    \/ BParseSeriesId
    \/ BParseSeriesPage
    \/ BParseShelvesPage
    \/ BParseEditionsPage
    \/ BCatchTransient
    \/ BBackoffRetry
    \/ BBackoffGiveUp
    \/ BPropagate

Spec == Init /\ [][Next]_vars

\* scrape() runs to its end: no step of it waits for anything but its own
\* requests and sleeps
LiveSpec == Spec /\ WF_vars(Next)

----------------------------------------------------------------------------
(* The claims about the scrapers *)

Terminated ==
    \/ kind = "author" /\ a_pc \in {"done", "raised"}
    \/ kind = "book" /\ b_pc \in {"done", "raised"}

\* C2: _scrape_editions requests the pages 1, 2, ... and stops at the first page
\* of fewer than 100 entries or after page 10: page 11 is never requested, and
\* when every page is full exactly the pages 1..10 are merged (1000 entries).
C2_CapAtTen ==
    /\ edPage <= MaxEditionsPages
    /\ (b_pc = "done" /\ edRaw >= MaxEditionsPages * PageSize)
            => (edPage = MaxEditionsPages /\ edRaw = MaxEditionsPages * PageSize)

\* C3, as claimed: after a Timeout or HTTPError on an editions page, the
\* primary, series and shelves pages are not requested again.
C3_NoRefetch == ~refetched

\* C3, amended: a Timeout or HTTPError on an editions page leaves _scrape_book,
\* and every retry is a whole new call of _scrape_book: each call requests the
\* book page again, and the editions are reached again only after the book
\* page (and the series and shelves pages) have been requested again.
C3_RetryFromPrimary ==
    /\ b_pc \in {"authors", "series", "shelves", "editions", "done"}
            => b_primaryReqs = b_attempts
    /\ (edFailed /\ b_pc \in {"series", "shelves", "editions", "done"}) => refetched

C3_Witness ==
    /\ edFailed
    /\ refetched
    /\ b_pc = "done"
    /\ b_attempts = 3

\* C4: a cue that is_goodreads_id accepts is taken verbatim as the ID, and
\* find_author_id is never called for it, at construction or in any attempt.
C4_NoSearchForIds ==
    /\ is_goodreads_id(a_cue) =>
            /\ a_findCalls = 0
            /\ a_pc \notin {"idle", "new"} => author_id = Some(a_cue)
    /\ (is_goodreads_id(b_cue) /\ b_pc \notin {"idle", "new"}) => book_id = b_cue

\* C6: scrape() of an author and of a book terminates whatever the fetches do;
\* a Timeout or HTTPError is retried only while the time of the backoff is
\* within 60 s, and once it is not the failure is raised and nothing is
\* attempted any more.
C6_Terminates ==
    /\ <>Terminated
    /\ [][/\ (a_pc = "exc" /\ a_backoff /\ a_elapsed >= MaxTime) => a_pc' = "raised"
          /\ (b_pc = "exc" /\ b_backoff /\ b_elapsed >= MaxTime) => b_pc' = "raised"
          /\ (kind = "book" /\ b_pc = "raised") => UNCHANGED vars
          /\ (kind = "author" /\ a_pc = "raised") => UNCHANGED vars]_vars

C6_Witness ==
    /\ kind = "book"
    /\ b_pc = "raised"
    /\ b_backoff
    /\ b_exc \in Transient
    /\ b_elapsed >= MaxTime
    /\ b_attempts >= 3

\* C7, as claimed: no request follows another without a throttling delay
\* between the two.
C7_AlwaysThrottled == prevGap \in {"start", "throttled"} /\ gap # "none"

\* C7, amended: every fetch step decorated with throttled (search, author
\* page, series, shelves, editions) that returns is followed by the throttling
\* delay before the next request; the book page, fetched by the undecorated
\* _parse_book_page, is followed by the request of the first contributor's
\* author page with no delay, and so is a step that raised by its retry.
C7_ThrottledSteps ==
    /\ gap = "none" => lastReq = "book_page"
    /\ prevGap = "none" => prevReq = "book_page"

C7_Witness ==
    /\ prevReq = "book_page"
    /\ prevGap = "none"
    /\ lastReq = "author_page"
    /\ gap = "throttled"

\* C8: in every call of _scrape_book no series, shelves or editions page is
\* requested before _parse_book_page has returned in that call; if it raises,
\* none of the three is requested in that call.
C8_PrimaryFirst ==
    /\ b_secReqs > 0 => b_primaryDone
    /\ b_pc \in {"series", "shelves", "editions"} => b_primaryDone

C8_Witness ==
    /\ b_attempts = 2
    /\ b_secReqs = 3
    /\ b_primaryDone

----------------------------------------------------------------------------
(* SpecId: is_goodreads_id applied to every string of at most MaxLen       *)
(* characters                                                              *)

IdInit ==
    /\ text \in StringsUpTo(MaxLen)
    /\ idChecked = FALSE
    /\ idResult = FALSE

CheckId ==
    /\ ~idChecked
    /\ idChecked' = TRUE
    /\ idResult' = is_goodreads_id(text)
    /\ UNCHANGED <<text, scrapeVars, batchVars, findVars, pureVars>>

InitId == IdInit /\ ScrapeIdle /\ BatchIdle /\ FindIdle /\ PureIdle

NextId == CheckId

SpecId == InitId /\ [][NextId]_vars

----------------------------------------------------------------------------
(* The three lexical forms of an ID *)

IsDigits(s) == Len(s) > 0 /\ AllChars(s, isdigit)

DotSlugChar(c) == (isalnum(c) /\ isascii(c)) \/ c = "_"

HyphenSlugChar(c) == (isalnum(c) /\ isascii(c)) \/ c = "-"

\* digits, sep, a non-empty slug
HasForm(s, sep, SlugChar(_)) ==
    \E k \in 2..(Len(s) - 1) :
        /\ s[k] = sep
        /\ IsDigits(SubSeq(s, 1, k - 1))
        /\ AllChars(SubSeq(s, k + 1, Len(s)), SlugChar)

DotForm(s) == HasForm(s, ".", DotSlugChar)

HyphenForm(s) == HasForm(s, "-", HyphenSlugChar)

\* C5: is_goodreads_id is true of every ID of the dot form (digits, '.',
\* slug), of the hyphen form (digits, '-', slug) and of the numeric-only form,
\* and false of every string that holds both a '.' and a '-'.
C5_Forms ==
    idChecked =>
        /\ (DotForm(text) \/ HyphenForm(text) \/ IsDigits(text)) => idResult
        /\ (Contains(text, ".") /\ Contains(text, "-")) => ~idResult

C5_Witness ==
    /\ idChecked
    /\ idResult
    /\ HyphenForm(text)
    /\ Len(text) = MaxLen

----------------------------------------------------------------------------
(* Sequences of items, str.casefold, sorted                                *)

\* the sequences of at most n items of S
SeqsUpTo(S, n) == UNION {[1..k -> S] : k \in 0..n}

\* "A" and "T" are uppercase letters, "b", "t" and "h" three more lowercase ones
casefold_char(c) == IF c = "A" THEN "a" ELSE IF c = "T" THEN "t" ELSE c

RECURSIVE casefold(_)
casefold(s) == IF s = <<>> THEN <<>> ELSE <<casefold_char(Head(s))>> \o casefold(Tail(s))

\* the code point of a letter
ord(c) ==
    CASE c = "A" -> 65
      [] c = "T" -> 84
      [] c = "a" -> 97
      [] c = "b" -> 98
      [] c = "h" -> 104
      [] c = "t" -> 116
      [] OTHER -> 0

\* s < t of two strings
RECURSIVE StrLess(_, _)
StrLess(s, t) ==
    IF t = <<>> THEN FALSE
    ELSE IF s = <<>> THEN TRUE
    ELSE IF ord(Head(s)) # ord(Head(t)) THEN ord(Head(s)) < ord(Head(t))
    ELSE StrLess(Tail(s), Tail(t))

\* item put behind every item of the sorted s whose key is not greater
RECURSIVE InsertByName(_, _)
InsertByName(item, s) ==
    IF s = <<>> THEN <<item>>
    ELSE IF StrLess(casefold(item.name), casefold(Head(s).name)) THEN <<item>> \o s
    ELSE <<Head(s)>> \o InsertByName(item, Tail(s))

\* the authors left in the order of their scrapes
Unsorted(s) == s

\* sorted(data["authors"], key=lambda item: item["name"].casefold()): stable
RECURSIVE SortedByName(_)
SortedByName(s) ==
    IF s = <<>> THEN <<>>
    ELSE InsertByName(s[Len(s)], SortedByName(SubSeq(s, 1, Len(s) - 1)))

----------------------------------------------------------------------------
(* SpecBatch: dump_authors of scrape/goodreads, which scrapes each author  *)
(* with AuthorParser(author).fetch_data_with_backoff() and dumps the       *)
(* authors sorted by name                                                  *)

\* most authors handed to dump_authors
MaxAuthors == 3

\* an ID, a full name and a short name
DumpCues == {<<"7", ".", "a">>, <<"a", " ", "a">>, <<"a">>}

\* the names the author pages render
PageNames == {<<"A">>, <<"a">>, <<"b">>}

\* on_exception(backoff.expo, Timeout, max_time=60)
ParserTransient == {"Timeout"}

\* for i, author in enumerate(authors, start=1): parser = AuthorParser(author),
\* and fetch_data_with_backoff is entered
DNextAuthor ==
    /\ d_pc = "loop"
    /\ d_i < Len(authors)
    /\ d_i' = d_i + 1
    /\ IF goodreads_utils_is_goodreads_id(authors[d_i + 1])
       THEN p_author_id' = Some(authors[d_i + 1]) /\ p_author_name' = None
       ELSE p_author_id' = None /\ p_author_name' = Some(authors[d_i + 1])
    /\ d_pc' = "fetch"
    /\ d_elapsed' = 0
    /\ d_n' = 0
    /\ d_exc' = "none"
    /\ UNCHANGED <<d_refresh, authors, d_findCalls, data_authors, dump>>
    /\ UNCHANGED <<idVars, scrapeVars, findVars, pureVars>>

\* if not self.author_id: self._author_id = self.find_author_id(self.author_name)
DFindAuthorId ==
    /\ d_pc = "fetch"
    /\ Falsy(p_author_id)
    /\ d_findCalls' = d_findCalls + 1
    /\ \E o \in {"ok", "Timeout", "ConnectionError", "ParsingError"} :
        IF o = "ok"
        THEN p_author_id' = Some(FoundAuthorId) /\ UNCHANGED <<d_pc, d_exc>>
        ELSE d_pc' = "exc" /\ d_exc' = o /\ UNCHANGED p_author_id
    /\ UNCHANGED <<d_refresh, authors, d_i, p_author_name, d_elapsed, d_n, data_authors, dump>>
    /\ UNCHANGED <<idVars, scrapeVars, findVars, pureVars>>

\* return self._parse_author_page(), and data["authors"].append(fetched.as_dict);
\* container is None on a page without its leftContainer div
DParseAuthorPage ==
    /\ d_pc = "fetch"
    /\ ~Falsy(p_author_id)
    /\ \/ \E nm \in PageNames :
            /\ p_author_name' = Some(nm)
            /\ data_authors' = Append(data_authors,
                                      [cue |-> d_i, id |-> p_author_id[1], name |-> nm])
            /\ d_pc' = "loop"
            /\ UNCHANGED d_exc
       \/ \E o \in {"Timeout", "ConnectionError", "AttributeError", "ParsingError"} :
            /\ d_pc' = "exc"
            /\ d_exc' = o
            /\ UNCHANGED <<p_author_name, data_authors>>
    /\ UNCHANGED <<d_refresh, authors, d_i, p_author_id, d_elapsed, d_n, d_findCalls, dump>>
    /\ UNCHANGED <<idVars, scrapeVars, findVars, pureVars>>

\* on_exception: the bound is not exceeded: sleep, then call again
DBackoffRetry ==
    /\ d_pc = "exc"
    /\ d_exc \in ParserTransient
    /\ ~GiveUp(d_elapsed)
    /\ \E s \in Waits(d_n, d_elapsed) : d_elapsed' = d_elapsed + AttemptTime + s
    /\ d_n' = d_n + 1
    /\ d_pc' = "fetch"
    /\ d_exc' = "none"
    /\ UNCHANGED <<d_refresh, authors, d_i, p_author_id, p_author_name, d_findCalls, data_authors, dump>>
    /\ UNCHANGED <<idVars, scrapeVars, findVars, pureVars>>

\* on_exception: max_time exceeded: raise
DBackoffGiveUp ==
    /\ d_pc = "exc"
    /\ d_exc \in ParserTransient
    /\ GiveUp(d_elapsed)
    /\ d_pc' = "raised"
    /\ UNCHANGED <<d_refresh, authors, d_i, p_author_id, p_author_name, d_elapsed, d_n, d_exc,
                   d_findCalls, data_authors, dump>>
    /\ UNCHANGED <<idVars, scrapeVars, findVars, pureVars>>

\* on_exception does not catch what is no Timeout
DBackoffPropagate ==
    /\ d_pc = "exc"
    /\ d_exc \notin ParserTransient
    /\ d_pc' = "raised"
    /\ UNCHANGED <<d_refresh, authors, d_i, p_author_id, p_author_name, d_elapsed, d_n, d_exc,
                   d_findCalls, data_authors, dump>>
    /\ UNCHANGED <<idVars, scrapeVars, findVars, pureVars>>

\* except ParsingError as e: print(f"{e}. Skipping..."); continue
DSkip ==
    /\ d_pc = "raised"
    /\ d_exc = "ParsingError"
    /\ d_pc' = "loop"
    /\ d_exc' = "none"
    /\ UNCHANGED <<d_refresh, authors, d_i, p_author_id, p_author_name, d_elapsed, d_n, d_findCalls,
                   data_authors, dump>>
    /\ UNCHANGED <<idVars, scrapeVars, findVars, pureVars>>

\* no other except clause: the exception leaves dump_authors
DUncaught ==
    /\ d_pc = "raised"
    /\ d_exc # "ParsingError"
    /\ d_pc' = "aborted"
    /\ UNCHANGED <<d_refresh, authors, d_i, p_author_id, p_author_name, d_elapsed, d_n, d_exc,
                   d_findCalls, data_authors, dump>>
    /\ UNCHANGED <<idVars, scrapeVars, findVars, pureVars>>

\* after the loop: the authors are sorted by name and written
DDump ==
    /\ d_pc = "loop"
    /\ d_i = Len(authors)
    /\ data_authors' = SortedByName(data_authors)
    /\ dump' = Some(SortedByName(data_authors))
    /\ d_pc' = "dumped"
    /\ UNCHANGED <<d_refresh, authors, d_i, p_author_id, p_author_name, d_elapsed, d_n, d_exc,
                   d_findCalls>>
    /\ UNCHANGED <<idVars, scrapeVars, findVars, pureVars>>

BatchInit ==
    /\ authors \in SeqsUpTo(DumpCues, MaxAuthors)
    /\ d_pc = "loop"
    /\ d_i = 0
    /\ p_author_id = None
    /\ p_author_name = None
    /\ d_elapsed = 0
    /\ d_n = 0
    /\ d_exc = "none"
    /\ d_findCalls = 0
    /\ data_authors = <<>>
    /\ dump = None
    /\ d_refresh = FALSE

InitBatch == IdIdle /\ ScrapeIdle /\ FindIdle /\ PureIdle /\ BatchInit

NextBatch ==
    \/ DNextAuthor
    \/ DFindAuthorId
    \/ DParseAuthorPage
    \/ DBackoffRetry
    \/ DBackoffGiveUp
    \/ DBackoffPropagate
    \/ DSkip
    \/ DUncaught
    \/ DDump

SpecBatch == InitBatch /\ [][NextBatch]_vars

\* C1: dump_authors never aborts because of one bad author: whatever exception
\* the scrape of an author raises, it is caught for that author only, the later
\* authors are still scraped and the dump is still produced.
C1_NeverAborts == d_pc # "aborted"

\* update_authors reading the names of the file
RefreshCueName(author) == author.name

\* ids = [author.id for author in authors]
RefreshCue(author) == author.id

\* update_authors(authors_json): load_authors reads the file dump_authors has
\* written, and dump_authors is called with the IDs of its authors
DUpdateAuthors ==
    /\ d_pc = "dumped"
    /\ ~d_refresh
    /\ d_refresh' = TRUE
    /\ authors' = [i \in 1..Len(dump[1]) |-> RefreshCue(dump[1][i])]
    /\ d_pc' = "loop"
    /\ d_i' = 0
    /\ p_author_id' = None
    /\ p_author_name' = None
    /\ d_elapsed' = 0
    /\ d_n' = 0
    /\ d_exc' = "none"
    /\ d_findCalls' = 0
    /\ data_authors' = <<>>
    /\ dump' = None
    /\ UNCHANGED <<idVars, scrapeVars, findVars, pureVars>>

NextRefresh ==
    \/ NextBatch
    \/ DUpdateAuthors

\* dump_authors, then update_authors of the file it wrote
SpecRefresh == InitBatch /\ [][NextRefresh]_vars

CuesOf(s) == [i \in 1..Len(s) |-> s[i].cue]

Increasing(s) == \A i, j \in 1..Len(s) : i < j => s[i] < s[j]

\* C12, as claimed: the dump holds the successfully scraped authors in the
\* relative order of their cues.
C12_InputOrder == d_pc = "dumped" => Increasing(CuesOf(dump[1]))

\* C12, amended: an author whose scrape raises has no entry; the scraped
\* authors are appended in the order of their cues, and the dump holds them
\* sorted by casefolded name, authors of equal casefolded names in the order of
\* their cues.
C12_SortedByName ==
    /\ d_pc \in {"exc", "raised", "aborted"} =>
            \A i \in 1..Len(data_authors) : data_authors[i].cue # d_i
    /\ d_pc \in {"loop", "fetch", "exc", "raised", "aborted"} =>
            /\ Increasing(CuesOf(data_authors))
            /\ \A i \in 1..Len(data_authors) : data_authors[i].cue <= d_i
    /\ d_pc = "dumped" =>
            /\ dump = Some(data_authors)
            /\ Len(data_authors) <= Len(authors)
            /\ \A i, j \in 1..Len(data_authors) :
                    i < j =>
                        LET ki == casefold(data_authors[i].name)
                            kj == casefold(data_authors[j].name)
                        IN  /\ ~StrLess(kj, ki)
                            /\ data_authors[i].cue # data_authors[j].cue
                            /\ ki = kj => data_authors[i].cue < data_authors[j].cue

\* three authors, the second skipped, the third sorted before the first
C12_Witness ==
    /\ d_pc = "dumped"
    /\ Len(authors) = 3
    /\ CuesOf(dump[1]) = <<3, 1>>

----------------------------------------------------------------------------
(* SpecFind: BookScraper.find_book_id                                      *)

\* most books of an author's top_books
MaxBooks == 2

\* most Author objects of authors_data
MaxData == 1

FindTitles == {<<>>, <<"t">>, <<"T">>, <<"h">>, <<"t", "h">>}

\* an author ID and three names
FindAuthors == {<<"7", ".", "a">>, <<"T", "h">>, <<"t", "h">>, <<"h", "h">>}

\* Book objects: a title and the ID url2id took from the row's link
Books == {[title |-> <<"T", "h">>, id |-> <<"7", ".", "t">>],
          [title |-> <<"t">>, id |-> <<"7", "7", ".", "t">>]}

BookLists == SeqsUpTo(Books, MaxBooks)

\* Author objects
Authors ==
    {[id |-> <<"7", ".", "a">>, name |-> <<"T", "h">>, top_books |-> bl] : bl \in BookLists}
    \cup {[id |-> <<"7", "7", ".", "a">>, name |-> <<"h">>, top_books |-> bl] :
            bl \in BookLists}

\* next((item for item in iterable if predicate(item)), None)
from_iterable(iterable, predicate(_)) ==
    LET hits == {i \in 1..Len(iterable) : predicate(iterable[i])}
    IN  IF hits = {} THEN None
        ELSE Some(iterable[CHOOSE i \in hits : \A j \in hits : i <= j])

\* sub in s, of two strings
IsIn(sub, s) ==
    \E i \in 1..(Len(s) - Len(sub) + 1) : SubSeq(s, i, i + Len(sub) - 1) = sub

\* the look-up that stops after the comparison of the whole titles
find_book_exact_only(author, t) ==
    from_iterable(author.top_books, LAMBDA b : casefold(b.title) = casefold(t))

\* _find_book_in_author_books
find_book_in_author_books(author, t) ==
    LET book == from_iterable(author.top_books, LAMBDA b : casefold(b.title) = casefold(t))
    IN  IF book = None
        THEN \* let's be even less strict...
             from_iterable(author.top_books, LAMBDA b : IsIn(casefold(t), casefold(b.title)))
        ELSE book

book_id_from_data(t, author, data) ==
    LET found == IF is_goodreads_id(author)
                 THEN from_iterable(data, LAMBDA a : a.id = author)
                 ELSE from_iterable(data, LAMBDA a : casefold(a.name) = casefold(author))
    IN  IF found = None THEN None
        ELSE LET book == find_book_in_author_books(found[1], t)
             IN  IF book = None THEN None ELSE Some(book[1].id)

\* find_book_id that scrapes whatever the look-up returned
NeedsFetchAlways(id) == TRUE

\* if not id_:
NeedsFetch(id) == Falsy(id)

\* find_book_id: id_ = None; if authors_data: id_ = cls.book_id_from_data(...);
\* with an id_ it returns, without one it calls fetch_book_id
FFindBookId ==
    /\ f_pc = "call"
    /\ IF Falsy(authors_data)
       THEN id_' = None /\ UNCHANGED f_lookups
       ELSE /\ id_' = book_id_from_data(title, f_author, authors_data[1])
            /\ f_lookups' = f_lookups + 1
    /\ f_pc' = IF NeedsFetch(id_') THEN "fetch" ELSE "done"
    /\ UNCHANGED <<title, f_author, authors_data, f_scrapes>>
    /\ UNCHANGED <<idVars, scrapeVars, batchVars, pureVars>>

\* fetch_book_id: scraper = AuthorScraper(author); author = scraper.scrape();
\* the scrape raises or returns an Author
FFetchScrape ==
    /\ f_pc = "fetch"
    /\ f_scrapes' = f_scrapes + 1
    /\ \/ f_pc' = "raised" /\ UNCHANGED id_
       \/ \E bl \in BookLists :
            LET book == find_book_in_author_books([top_books |-> bl], title)
            IN  IF book = None
                THEN f_pc' = "extended" /\ UNCHANGED id_
                ELSE f_pc' = "done" /\ id_' = Some(book[1].id)
    /\ UNCHANGED <<title, f_author, authors_data, f_lookups>>
    /\ UNCHANGED <<idVars, scrapeVars, batchVars, pureVars>>

\* fetch_book_id: author = scraper.scrape(extended_top_books=True)
FFetchExtended ==
    /\ f_pc = "extended"
    /\ f_scrapes' = f_scrapes + 1
    /\ \/ f_pc' = "raised" /\ UNCHANGED id_
       \/ \E bl \in BookLists :
            LET book == find_book_in_author_books([top_books |-> bl], title)
            IN  /\ f_pc' = "done"
                /\ id_' = IF book = None THEN None ELSE Some(book[1].id)
    /\ UNCHANGED <<title, f_author, authors_data, f_lookups>>
    /\ UNCHANGED <<idVars, scrapeVars, batchVars, pureVars>>

FindInit ==
    /\ f_pc = "call"
    /\ title \in FindTitles
    /\ f_author \in FindAuthors
    /\ authors_data \in {None} \cup {Some(d) : d \in SeqsUpTo(Authors, MaxData)}
    /\ id_ = None
    /\ f_lookups = 0
    /\ f_scrapes = 0

InitFind == IdIdle /\ ScrapeIdle /\ BatchIdle /\ PureIdle /\ FindInit

NextFind ==
    \/ FFindBookId
    \/ FFetchScrape
    \/ FFetchExtended

SpecFind == InitFind /\ [][NextFind]_vars

\* what the look-up in the supplied records finds
OfflineId ==
    IF Falsy(authors_data) THEN None
    ELSE book_id_from_data(title, f_author, authors_data[1])

\* C10: find_book_id looks the book up in the supplied records first, and has
\* an author scraped only if no records were supplied or the look-up found no
\* matching author or title; when the look-up finds the book, its ID is
\* returned and nothing is scraped.
C10_OfflineFirst ==
    /\ f_scrapes > 0 =>
        \/ Falsy(authors_data)
        \/ f_lookups = 1 /\ OfflineId = None
    /\ (f_pc # "call" /\ OfflineId # None) =>
        /\ f_pc = "done"
        /\ f_lookups = 1
        /\ id_ = OfflineId
        /\ f_scrapes = 0

C10_Witness ==
    /\ f_pc = "done"
    /\ OfflineId # None
    /\ id_ = OfflineId
    /\ f_lookups = 1
    /\ f_scrapes = 0
    /\ casefold(title) # title

----------------------------------------------------------------------------
(* SpecMatch: _find_book_in_author_books of scrape/provider/goodreads and  *)
(* of scrape/goodreads/scrapers.py, applied to every list of at most       *)
(* MaxBooks books and every title of MatchTitles. "'" is the straight      *)
(* apostrophe, "rsquo" the curly one.                                      *)

MatchTitles == {<<"t">>, <<"T">>, <<"h">>, <<"t", "h">>, <<"t", "'">>, <<"t", "rsquo">>,
                <<"T", "'", "h">>}

MatchBooks ==
    {[title |-> t, id |-> i] :
        t \in {<<"t">>, <<"T", "h">>, <<"t", "rsquo">>, <<"t", "'">>},
        i \in {<<"7", ".", "t">>, <<"7", "7", ".", "t">>}}

\* title.replace("'", "’")
RECURSIVE CurlyApostrophes(_)
CurlyApostrophes(s) ==
    IF s = <<>> THEN <<>>
    ELSE <<IF Head(s) = "'" THEN "rsquo" ELSE Head(s)>> \o CurlyApostrophes(Tail(s))

\* _find_book_in_author_books of scrape/goodreads/scrapers.py
goodreads_find_book_in_author_books(author, t) ==
    LET exact == from_iterable(author.top_books, LAMBDA b : casefold(b.title) = casefold(t))
        \* Goodreads gets fancy with their apostrophes...
        curly == from_iterable(author.top_books,
                               LAMBDA b : casefold(b.title) = casefold(CurlyApostrophes(t)))
        \* let's be even less strict...
        within == from_iterable(author.top_books,
                                LAMBDA b : IsIn(casefold(t), casefold(b.title)))
        curlyWithin == from_iterable(author.top_books,
                          LAMBDA b : IsIn(casefold(CurlyApostrophes(t)), casefold(b.title)))
    IN  IF exact # None THEN exact
        ELSE IF curly # None THEN curly
        ELSE IF within # None THEN within
        ELSE curlyWithin

FindBook ==
    /\ m_pc = "call"
    /\ m_pc' = "done"
    /\ m_book' = IF m_version = "provider"
                 THEN find_book_in_author_books([top_books |-> top_books], m_title)
                 ELSE goodreads_find_book_in_author_books([top_books |-> top_books], m_title)
    /\ UNCHANGED <<m_version, top_books, m_title>>
    /\ UNCHANGED <<idVars, scrapeVars, batchVars, findVars, distVars, renownVars, nameVars, shelfVars>>

MatchInit ==
    /\ m_pc = "call"
    /\ m_version \in {"provider", "goodreads"}
    /\ top_books \in SeqsUpTo(MatchBooks, MaxBooks)
    /\ m_title \in MatchTitles
    /\ m_book = None

InitMatch == IdIdle /\ ScrapeIdle /\ BatchIdle /\ FindIdle /\ DistIdle /\ RenownIdle /\ NameIdle /\ ShelfIdle /\ MatchInit

NextMatch == FindBook

SpecMatch == InitMatch /\ [][NextMatch]_vars

\* the curly apostrophes of s made straight
RECURSIVE StraightApostrophes(_)
StraightApostrophes(s) ==
    IF s = <<>> THEN <<>>
    ELSE <<IF Head(s) = "rsquo" THEN "'" ELSE Head(s)>> \o StraightApostrophes(Tail(s))

\* the books of top_books, by their places, that match m_title at level k as
\* the levels are claimed: equal, equal with the apostrophes normalised, one
\* inside the other
ClaimedHits(k) ==
    {i \in 1..Len(top_books) :
        LET b == casefold(top_books[i].title)
            q == casefold(m_title)
        IN  CASE k = 1 -> b = q
              [] k = 2 -> StraightApostrophes(b) = StraightApostrophes(q)
              [] OTHER -> IsIn(q, b) \/ IsIn(b, q)}

\* the levels of the running version: equal, (goodreads: equal to the title
\* with its straight apostrophes made curly,) the title inside the book's,
\* (goodreads: the title with curly apostrophes inside the book's)
CodeHits(k) ==
    {i \in 1..Len(top_books) :
        LET b == casefold(top_books[i].title)
            q == casefold(m_title)
            c == casefold(CurlyApostrophes(m_title))
        IN  CASE k = 1 -> b = q
              [] k = 2 -> m_version = "goodreads" /\ b = c
              [] k = 3 -> IsIn(q, b)
              [] OTHER -> m_version = "goodreads" /\ IsIn(c, b)}

\* the first book of the first level of 1..n that any book matches, by the
\* hits of the levels
FirstOfLevels(n, Hits(_)) ==
    IF \A k \in 1..n : Hits(k) = {} THEN None
    ELSE LET k == CHOOSE x \in 1..n : Hits(x) # {} /\ \A y \in 1..(x - 1) : Hits(y) = {}
             i == CHOOSE x \in Hits(k) : \A y \in Hits(k) : x <= y
         IN  Some(top_books[i])

\* C11, as claimed: _find_book_in_author_books tries equality of the casefolded
\* titles, then equality with the apostrophes normalised, then containment in
\* either direction, and returns the first book in list order of the first
\* level that any book matches, and nothing only if no level matches a book.
C11_ThreeLevels == m_pc = "done" => m_book = FirstOfLevels(3, ClaimedHits)

\* C11, amended: _find_book_in_author_books tries equality of the casefolded
\* titles, then (scrape/goodreads only) equality with the title whose straight
\* apostrophes are made curly, then containment of the title in the book's
\* title, then (scrape/goodreads only) containment of the title with curly
\* apostrophes; it returns the first book in list order of the first level
\* that any book matches, and nothing if none does: a book whose title lies
\* inside a longer title asked for is not found.
C11_Levels == m_pc = "done" => m_book = FirstOfLevels(4, CodeHits)

C11_Witness ==
    /\ m_pc = "done"
    /\ m_version = "goodreads"
    /\ CodeHits(1) = {}
    /\ CodeHits(2) = {2}
    /\ m_book = Some(top_books[2])

----------------------------------------------------------------------------
(* SpecDist: RatingsDistribution. Ranks are the integers 0..MaxRank, a     *)
(* ratio is the pair of its numerator and its denominator, and what        *)
(* round(x, 3) returns is counted in thousandths.                          *)

\* the greatest rank
MaxRank == 3

\* the most votes of a rank
MaxVotes == 1

Ranks == 0..MaxRank

\* sorted(S), of a set of numbers
RECURSIVE SortedTuple(_)
SortedTuple(S) ==
    IF S = {} THEN <<>>
    ELSE LET least == CHOOSE x \in S : \A y \in S : x <= y
         IN  <<least>> \o SortedTuple(S \ {least})

Reversed(s) == [i \in 1..Len(s) |-> s[Len(s) + 1 - i]]

Elements(s) == {s[i] : i \in 1..Len(s)}

Maximum(S) == CHOOSE x \in S : \A y \in S : y <= x

\* the distributions: every mapping of two or more ranks to votes
Distributions ==
    UNION {[K -> 0..MaxVotes] : K \in {S \in SUBSET Ranks : Cardinality(S) >= 2}}

\* the rank schemes: none, and every set of two or more ranks in increasing
\* order, in decreasing order, and with a rank repeated
RankSchemes ==
    {<<>>}
    \cup UNION {{SortedTuple(S), Reversed(SortedTuple(S)),
                 Append(SortedTuple(S), Maximum(S))} :
                    S \in {T \in SUBSET Ranks : Cardinality(T) >= 2}}

\* round(num / den, 3) in thousandths; no num / den of ranks lies halfway
\* between two thousandths
Round3(num, den) == (2000 * num + den) \div (2 * den)

\* sum(votes for rank, votes in pairs if min_ < rank / top <= max_), min_ and
\* max_ in thousandths
RECURSIVE SpanSum(_, _, _, _)
SpanSum(pairs, top, min_, max_) ==
    IF pairs = <<>> THEN 0
    ELSE (IF min_ * top < 1000 * Head(pairs)[1] /\ 1000 * Head(pairs)[1] <= max_ * top
          THEN Head(pairs)[2] ELSE 0)
         + SpanSum(Tail(pairs), top, min_, max_)

\* _span_ratings over self._normalized, the ranks divided by max(self.dist)
span_ratings(min_, max_) ==
    SpanSum(r_dist, Maximum({r_dist[k][1] : k \in 1..Len(r_dist)}), min_, max_)

\* the span of the rank at place i of the scheme, starting at the rank before it
SpanFromPrevious(i) ==
    LET max_rank == Maximum(Elements(r_rank_scheme))
    IN  IF i = 1 THEN span_ratings(0, Round3(r_rank_scheme[1], max_rank))
        ELSE IF i = Len(r_rank_scheme)
        THEN span_ratings(Round3(r_rank_scheme[i - 1], max_rank), 1000)
        ELSE span_ratings(Round3(r_rank_scheme[i - 1], max_rank),
                          Round3(r_rank_scheme[i], max_rank))

\* scaled_dist that rescales even to its own ranks
NeedsScalingAlways == TRUE

\* if self.rank_scheme == tuple(sorted(self.dist)): return self.dist
NeedsScaling == r_rank_scheme # [k \in 1..Len(r_dist) |-> r_dist[k][1]]

\* the span of a rank that ends at the rank itself, whatever the rank before it
SpanFromZero(i) ==
    span_ratings(0, Round3(r_rank_scheme[i], Maximum(Elements(r_rank_scheme))))

\* the votes scaled_dist gives the rank at place i of the scheme
ScaledVotes(i) == SpanFromPrevious(i)

scaled_dist ==
    IF ~NeedsScaling THEN r_dist
    ELSE [i \in 1..Len(r_rank_scheme) |-> <<r_rank_scheme[i], ScaledVotes(i)>>]

RECURSIVE SumVotes(_)
SumVotes(pairs) == IF pairs = <<>> THEN 0 ELSE Head(pairs)[2] + SumVotes(Tail(pairs))

RECURSIVE SumRankVotes(_)
SumRankVotes(pairs) ==
    IF pairs = <<>> THEN 0 ELSE Head(pairs)[1] * Head(pairs)[2] + SumRankVotes(Tail(pairs))

\* self.total
total == SumVotes(r_dist)

\* x / divisor raises ZeroDivisionError
DividesByZero(divisor) == divisor = 0

\* __init__
RConstruct ==
    /\ r_pc = "new"
    /\ LET keys == DOMAIN distribution
           scheme == IF rank_scheme = <<>> THEN keys ELSE Elements(rank_scheme)
       IN  /\ r_dist' = [k \in 1..Cardinality(keys) |->
                            <<SortedTuple(keys)[k], distribution[SortedTuple(keys)[k]]>>]
           /\ r_rank_scheme' = SortedTuple(scheme)
           /\ IF Cardinality(keys) < 3 \/ Cardinality(scheme) < 3
              THEN r_pc' = "raised" /\ r_exc' = "ValueError"
              ELSE r_pc' = "ready" /\ UNCHANGED r_exc
    /\ UNCHANGED <<distribution, rank_scheme, r_query, r_scaled, r_value>>
    /\ UNCHANGED <<idVars, scrapeVars, batchVars, findVars, matchVars, renownVars, nameVars, shelfVars>>

\* the property scaled_dist
RScaledDist ==
    /\ r_pc = "ready"
    /\ r_pc' = "done"
    /\ r_query' = "scaled_dist"
    /\ r_scaled' = scaled_dist
    /\ UNCHANGED <<distribution, rank_scheme, r_dist, r_rank_scheme, r_exc, r_value>>
    /\ UNCHANGED <<idVars, scrapeVars, batchVars, findVars, matchVars, renownVars, nameVars, shelfVars>>

\* the property avg_rating: sum(rank * votes ...) / self.total
RAvgRating ==
    /\ r_pc = "ready"
    /\ r_query' = "avg_rating"
    /\ IF DividesByZero(total)
       THEN r_pc' = "raised" /\ r_exc' = "ZeroDivisionError" /\ UNCHANGED r_value
       ELSE r_pc' = "done" /\ r_value' = <<SumRankVotes(r_dist), total>> /\ UNCHANGED r_exc
    /\ UNCHANGED <<distribution, rank_scheme, r_dist, r_rank_scheme, r_scaled>>
    /\ UNCHANGED <<idVars, scrapeVars, batchVars, findVars, matchVars, renownVars, nameVars, shelfVars>>

\* ratings_percent(rank): self.ratings(rank) * 100 / self.total
RRatingsPercent ==
    /\ r_pc = "ready"
    /\ r_query' = "ratings_percent"
    /\ \E rank \in Ranks :
        IF rank \notin Elements(r_rank_scheme)
        THEN r_pc' = "raised" /\ r_exc' = "ValueError" /\ UNCHANGED r_value
        ELSE LET i == CHOOSE k \in 1..Len(r_rank_scheme) : r_rank_scheme[k] = rank
             IN  IF DividesByZero(total)
                 THEN r_pc' = "raised" /\ r_exc' = "ZeroDivisionError" /\ UNCHANGED r_value
                 ELSE /\ r_pc' = "done"
                      /\ r_value' = <<rank, scaled_dist[i][2] * 100, total>>
                      /\ UNCHANGED r_exc
    /\ UNCHANGED <<distribution, rank_scheme, r_dist, r_rank_scheme, r_scaled>>
    /\ UNCHANGED <<idVars, scrapeVars, batchVars, findVars, matchVars, renownVars, nameVars, shelfVars>>

DistInit ==
    /\ r_pc = "new"
    /\ distribution \in Distributions
    /\ rank_scheme \in RankSchemes
    /\ r_dist = <<>>
    /\ r_rank_scheme = <<>>
    /\ r_query = "none"
    /\ r_exc = "none"
    /\ r_scaled = <<>>
    /\ r_value = <<>>

InitDist == IdIdle /\ ScrapeIdle /\ BatchIdle /\ FindIdle /\ MatchIdle /\ RenownIdle /\ NameIdle /\ ShelfIdle /\ DistInit

NextDist ==
    \/ RConstruct
    \/ RScaledDist
    \/ RAvgRating
    \/ RRatingsPercent

SpecDist == InitDist /\ [][NextDist]_vars


\* the votes of the source ranks whose rank / top lies in (lo, hi], lo and hi
\* in thousandths
RECURSIVE VotesWithin(_, _, _, _)
VotesWithin(keys, top, lo, hi) ==
    IF keys = {} THEN 0
    ELSE LET k == CHOOSE x \in keys : TRUE
         IN  (IF lo * top < 1000 * k /\ 1000 * k <= hi * top THEN distribution[k] ELSE 0)
             + VotesWithin(keys \ {k}, top, lo, hi)

\* the votes of the source ranks whose rank / top lies in (loNum / den, hiNum / den]
RECURSIVE VotesBetween(_, _, _, _, _)
VotesBetween(keys, top, loNum, hiNum, den) ==
    IF keys = {} THEN 0
    ELSE LET k == CHOOSE x \in keys : TRUE
         IN  (IF loNum * top < den * k /\ den * k <= hiNum * top THEN distribution[k] ELSE 0)
             + VotesBetween(keys \ {k}, top, loNum, hiNum, den)

Rescaled ==
    /\ r_pc = "done"
    /\ r_query = "scaled_dist"
    /\ DOMAIN distribution # Elements(r_rank_scheme)

\* C14, as the code has it: for a histogram whose keys differ from the target
\* scheme, scaled_dist gives target rank i the votes of the source ranks whose
\* rank, divided by the greatest source rank, lies in (lower_i, upper_i], where
\* upper_i is rank i divided by the greatest target rank and rounded to three
\* decimals, lower_i is the upper edge of the rank before it, the first lower
\* edge is 0 and the last upper edge is 1.
C14_RoundedRanks ==
    Rescaled =>
        LET t == r_rank_scheme
            n == Len(t)
            tmax == Maximum(Elements(t))
            smax == Maximum(DOMAIN distribution)
        IN  /\ Len(r_scaled) = n
            /\ \A i \in 1..n :
                /\ r_scaled[i][1] = t[i]
                /\ r_scaled[i][2] =
                      VotesWithin(DOMAIN distribution, smax,
                                  IF i = 1 THEN 0 ELSE Round3(t[i - 1], tmax),
                                  IF i = n THEN 1000 ELSE Round3(t[i], tmax))

\* C14 is exercised: a rescaled histogram with a vote in a bucket that is
\* neither the first nor the last
C14_Witness ==
    /\ Rescaled
    /\ \E i \in 2..(Len(r_scaled) - 1) : r_scaled[i][2] > 0

\* C14, as stated: the edges of the buckets are the midpoints between
\* consecutive normalised target ranks, 0 below the first rank and 1 above the
\* last.
C14_Midpoints ==
    Rescaled =>
        LET t == r_rank_scheme
            n == Len(t)
            tmax == Maximum(Elements(t))
            smax == Maximum(DOMAIN distribution)
        IN  /\ Len(r_scaled) = n
            /\ \A i \in 1..n :
                r_scaled[i][2] =
                    VotesBetween(DOMAIN distribution, smax,
                                 IF i = 1 THEN 0 ELSE t[i - 1] + t[i],
                                 IF i = n THEN 2 * tmax ELSE t[i] + t[i + 1],
                                 2 * tmax)

OwnScheme ==
    /\ r_pc = "done"
    /\ r_query = "scaled_dist"
    /\ (rank_scheme = <<>> \/ Elements(rank_scheme) = DOMAIN distribution)

\* C15: with no target scheme, or with a target scheme of the same ranks as
\* the keys of the histogram in any order, scaled_dist returns the stored
\* histogram: the same ranks with the same votes.
C15_OwnSchemeUnchanged ==
    OwnScheme =>
        /\ r_scaled = r_dist
        /\ {r_scaled[i][1] : i \in 1..Len(r_scaled)} = DOMAIN distribution
        /\ Len(r_scaled) = Cardinality(DOMAIN distribution)
        /\ \A i \in 1..Len(r_scaled) : r_scaled[i][2] = distribution[r_scaled[i][1]]

\* C15 is exercised: the scheme is given in an order that is not the order of
\* the stored keys, and one of the ranks has a vote
C15_Witness ==
    /\ OwnScheme
    /\ rank_scheme # <<>>
    /\ rank_scheme # r_rank_scheme
    /\ \E i \in 1..Len(r_scaled) : r_scaled[i][2] > 0

\* C16, as stated: with no votes at all, avg_rating and ratings_percent do not
\* fail with a division by zero.
C16_NoDivisionByZero ==
    (total = 0 /\ r_query \in {"avg_rating", "ratings_percent"})
        => r_exc # "ZeroDivisionError"

----------------------------------------------------------------------------
(* SpecRenown: Renown.calculate(ratings, model_ratings, fractions).        *)

\* the greatest fraction
MaxFraction == 9

\* the greatest model_ratings and ratings
MaxModelRatings == 24

\* the members of Renown, in the order of their definition
Renown ==
    <<"SUPERSTAR", "STAR", "FAMOUS", "POPULAR", "WELL_KNOWN", "KNOWN",
      "SOMEWHAT_KNOWN", "LITTLE_KNOWN", "OBSCURE">>

\* the default of the parameter fractions
DefaultFractions == <<3, 11, 29, 66, 141, 291, 591, 1191>>

\* the fractions that pass both tests: the default, and every increasing tuple of
\* len(Renown) - 1 of the numbers 0..MaxFraction
IncreasingFractions ==
    {DefaultFractions}
    \cup {SortedTuple(S) : S \in {T \in SUBSET (0..MaxFraction) :
                                    Cardinality(T) = Len(Renown) - 1}}

\* the fractions: the increasing ones, and each of them with its last item
\* dropped, with one item more, with its first item repeated and reversed
Fractions ==
    IncreasingFractions
    \cup {SubSeq(f, 1, Len(f) - 1) : f \in IncreasingFractions}
    \cup {Append(f, f[Len(f)] + 1) : f \in IncreasingFractions}
    \cup {[f EXCEPT ![2] = f[1]] : f \in IncreasingFractions}
    \cup {Reversed(f) : f \in IncreasingFractions}

\* is_increasing that lets equal neighbours pass
is_nondecreasing(seq) ==
    IF Len(seq) < 2 THEN FALSE
    ELSE \A i \in 1..(Len(seq) - 1) : seq[i + 1] >= seq[i]

is_increasing(seq) ==
    IF Len(seq) < 2 THEN FALSE
    ELSE \A i \in 1..(Len(seq) - 1) : seq[i + 1] > seq[i]

\* model_ratings / fractions[i] rounded up
BoundaryCeiling(i) == (model_ratings + fractions[i] - 1) \div fractions[i]

\* int(model_ratings * 1 / fractions[i]), of a model_ratings that is not
\* negative and a fraction above 0
Boundary(i) == model_ratings \div fractions[i]

\* the first test with > in the place of >=
TopReachedStrictly == ratings > Boundary(1)

\* if ratings >= int(model_ratings * 1 / fractions[0])
TopReached == ratings >= Boundary(1)

\* the brackets with their lower ends left out
RECURSIVE BracketOpenBelow(_)
BracketOpenBelow(i) ==
    IF i = Len(Renown) - 1
    THEN (IF 0 < ratings /\ ratings < Boundary(i) THEN Renown[i + 1] ELSE "none")
    ELSE IF Boundary(i + 1) < ratings /\ ratings < Boundary(i)
    THEN Renown[i + 1]
    ELSE BracketOpenBelow(i + 1)

\* the elif of the member after the i-th and those that follow it; "none" is
\* the else that raises
RECURSIVE Bracket(_)
Bracket(i) ==
    IF i = Len(Renown) - 1
    THEN (IF 0 <= ratings /\ ratings < Boundary(i) THEN Renown[i + 1] ELSE "none")
    ELSE IF Boundary(i + 1) <= ratings /\ ratings < Boundary(i)
    THEN Renown[i + 1]
    ELSE Bracket(i + 1)

\* the two tests of fractions
CValidate ==
    /\ c_pc = "new"
    /\ IF Len(fractions) # Len(Renown) - 1
       THEN c_pc' = "raised" /\ c_exc' = "ValueError"
       ELSE IF ~is_increasing(fractions)
       THEN c_pc' = "raised" /\ c_exc' = "ValueError"
       ELSE c_pc' = "validated" /\ UNCHANGED c_exc
    /\ UNCHANGED <<ratings, model_ratings, fractions, c_renown>>
    /\ UNCHANGED <<idVars, scrapeVars, batchVars, findVars, matchVars, distVars, nameVars, shelfVars>>

\* the if / elif / else over the brackets
CClassify ==
    /\ c_pc = "validated"
    /\ IF fractions[1] = 0
       THEN c_pc' = "raised" /\ c_exc' = "ZeroDivisionError" /\ UNCHANGED c_renown
       ELSE IF TopReached
       THEN c_pc' = "done" /\ c_renown' = Renown[1] /\ UNCHANGED c_exc
       ELSE IF Bracket(1) = "none"
       THEN c_pc' = "raised" /\ c_exc' = "ValueError" /\ UNCHANGED c_renown
       ELSE c_pc' = "done" /\ c_renown' = Bracket(1) /\ UNCHANGED c_exc
    /\ UNCHANGED <<ratings, model_ratings, fractions>>
    /\ UNCHANGED <<idVars, scrapeVars, batchVars, findVars, matchVars, distVars, nameVars, shelfVars>>

RenownInit ==
    /\ c_pc = "new"
    /\ ratings \in -1..MaxModelRatings
    /\ model_ratings \in 0..MaxModelRatings
    /\ fractions \in Fractions
    /\ c_renown = "none"
    /\ c_exc = "none"

InitRenown == IdIdle /\ ScrapeIdle /\ BatchIdle /\ FindIdle /\ MatchIdle /\ DistIdle /\ NameIdle /\ ShelfIdle /\ RenownInit

NextRenown ==
    \/ CValidate
    \/ CClassify

SpecRenown == InitRenown /\ [][NextRenown]_vars

\* fractions as the contract wants them: len(Renown) - 1 of them, each above
\* the one before it
StrictlyIncreasingEight ==
    /\ Len(fractions) = 8
    /\ \A i \in 1..7 : fractions[i] < fractions[i + 1]

\* the brackets were gone through, with fractions above 0 and a count of 0 or more
Classified ==
    /\ c_pc \in {"done", "raised"}
    /\ StrictlyIncreasingEight
    /\ fractions[1] > 0
    /\ ratings >= 0

C18_ZeroIsObscure ==
    (Classified /\ ratings = 0 /\ model_ratings > 0) => c_renown = "OBSCURE"

\* C19: with ratings = model_ratings = N, N >= 0, the top member, SUPERSTAR,
\* is returned: the top boundary is inclusive.
C19_TopInclusive ==
    (Classified /\ ratings = model_ratings)
        => c_pc = "done" /\ c_renown = "SUPERSTAR"

\* C19 is exercised: N is above 0 and the top boundary is N itself
C19_Witness ==
    /\ Classified
    /\ ratings = model_ratings
    /\ ratings > 0
    /\ fractions[1] = 1
    /\ c_renown = "SUPERSTAR"

\* C20: fractions that are not 8, or not strictly increasing (two equal
\* neighbours included), end in ValueError before any bracket is evaluated;
\* no member is returned, whatever the counts.
C20_InvalidFractionsRaise ==
    ~StrictlyIncreasingEight
        => /\ c_pc \in {"new", "raised"}
           /\ c_renown = "none"
           /\ c_pc = "raised" => c_exc = "ValueError"

\* C20 is exercised: eight fractions with two equal neighbours have raised
C20_Witness ==
    /\ c_pc = "raised"
    /\ Len(fractions) = 8
    /\ \E i \in 1..7 : fractions[i] = fractions[i + 1]
    /\ \A i \in 1..7 : fractions[i] <= fractions[i + 1]


\* the brackets were gone through with fractions above 0
WentThroughBrackets ==
    /\ c_pc \in {"done", "raised"}
    /\ StrictlyIncreasingEight
    /\ fractions[1] > 0

\* ratings satisfies the condition of the k-th member's branch
InBracket(k) ==
    IF k = 1 THEN ratings >= model_ratings \div fractions[1]
    ELSE IF k = 9 THEN 0 <= ratings /\ ratings < model_ratings \div fractions[8]
    ELSE /\ model_ratings \div fractions[k] <= ratings
         /\ ratings < model_ratings \div fractions[k - 1]

----------------------------------------------------------------------------
(* More claims about the scrapers *)

\* a ParsingError is in flight in, or has left, the scraper of the entity
ParsingErrorRaised ==
    \/ kind = "author" /\ a_pc \in {"exc", "raised"} /\ a_exc = "ParsingError"
    \/ kind = "book" /\ b_pc \in {"exc", "raised"} /\ b_exc = "ParsingError"
    \/ kind = "book" /\ b_pc = "authors" /\ a_pc \in {"exc", "raised"} /\ a_exc = "ParsingError"

\* C22: a ParsingError raised at any step of AuthorScraper.scrape or
\* BookScraper.scrape, in the first attempt or inside a backoff retry, is
\* permanent: every step after it only hands it on towards the caller; no
\* request is sent, no attempt is started and no backoff is entered.
C22_ParsingErrorPermanent ==
    [][ParsingErrorRaised =>
          /\ ParsingErrorRaised'
          /\ UNCHANGED reqVars
          /\ UNCHANGED <<b_attempts, b_backoff, b_n>>
          /\ a_backoff' => a_backoff
          /\ a_n' <= a_n
          /\ a_findCalls' <= a_findCalls
          /\ a_pc' \in {"raised", "idle"}
          /\ b_pc' \in {"idle", "authors", "exc", "raised"}
          /\ b_pc = "exc" => b_pc' = "raised"]_vars

\* C22 is exercised: the ParsingError of a contributor's author page, raised
\* inside a backoff retry of the book, has left BookScraper.scrape
C22_Witness ==
    /\ kind = "book"
    /\ b_pc = "raised"
    /\ b_exc = "ParsingError"
    /\ b_failedStep = "authors"
    /\ b_backoff


\* C23: the total_editions _scrape_editions returns is the count parsed from
\* editions page 1, whatever the number of pages scraped and of entries
\* counted on them.
C23_TotalOfPageOne ==
    (kind = "book" /\ b_pc = "done")
        => /\ edFirstTotal # None
           /\ total_editions = edFirstTotal

\* C23 is exercised: several pages were scraped, and page 1 showed a count
\* that is not the number of the entries counted
C23_Witness ==
    /\ kind = "book"
    /\ b_pc = "done"
    /\ edPage > 2
    /\ total_editions # Some(edRaw)
    /\ total_editions = Some(PageSize - 1)


----------------------------------------------------------------------------
(* SpecName: AuthorScraper.normalize_name, one character of its loop a step *)

\* the characters of a name: two ASCII letters, a letter that is not ASCII, an
\* underscore, a space and a digit
NameChars == {"a", "b", "l_stroke", "_", " ", "7"}

\* char.isalpha()
NameCharIsAlpha(c) == c \in {"a", "b", "l_stroke"}

\* char.isascii()
NameCharIsAscii(c) == c # "l_stroke"

\* a test that lets every letter through
KeepsEveryLetter(c) == NameCharIsAlpha(c)

\* char.isalpha() and char.isascii()
KeepsChar(c) == NameCharIsAlpha(c) /\ NameCharIsAscii(c)

\* one turn of 'for char in author_name'
NTakeChar ==
    /\ n_pc = "loop"
    /\ n_i < Len(n_author_name)
    /\ n_i' = n_i + 1
    /\ LET char == n_author_name[n_i + 1]
       IN  IF ~KeepsChar(char)
           THEN IF ~underscore_appended
                THEN chars' = Append(chars, "_") /\ underscore_appended' = TRUE
                ELSE UNCHANGED <<chars, underscore_appended>>
           ELSE chars' = Append(chars, char) /\ underscore_appended' = FALSE
    /\ UNCHANGED <<n_pc, n_author_name>>
    /\ UNCHANGED <<idVars, scrapeVars, batchVars, findVars, matchVars, distVars, renownVars, shelfVars>>

\* return "".join(chars)
NReturn ==
    /\ n_pc = "loop"
    /\ n_i = Len(n_author_name)
    /\ n_pc' = "done"
    /\ UNCHANGED <<n_author_name, n_i, chars, underscore_appended>>
    /\ UNCHANGED <<idVars, scrapeVars, batchVars, findVars, matchVars, distVars, renownVars, shelfVars>>

NameInit ==
    /\ n_pc = "loop"
    /\ n_author_name \in SeqsUpTo(NameChars, MaxLen)
    /\ n_i = 0
    /\ chars = <<>>
    /\ underscore_appended = FALSE

InitName == IdIdle /\ ScrapeIdle /\ BatchIdle /\ FindIdle /\ MatchIdle /\ DistIdle /\ RenownIdle /\ ShelfIdle /\ NameInit

NextName ==
    \/ NTakeChar
    \/ NReturn

SpecName == InitName /\ [][NextName]_vars

\* every character that is not one of the ASCII letters a, b replaced by an
\* underscore
RECURSIVE Underscored(_)
Underscored(s) ==
    IF s = <<>> THEN <<>>
    ELSE <<IF Head(s) \in {"a", "b"} THEN Head(s) ELSE "_">> \o Underscored(Tail(s))

\* every underscore that follows an underscore left out
RECURSIVE Squeezed(_)
Squeezed(s) ==
    IF Len(s) < 2 THEN s
    ELSE IF s[1] = "_" /\ s[2] = "_" THEN Squeezed(Tail(s))
    ELSE <<Head(s)>> \o Squeezed(Tail(s))

\* C24: normalize_name returns the name with each maximal run of characters
\* that are not ASCII letters replaced by one underscore and the ASCII letters
\* kept, unchanged and in order; what it returns never holds two adjacent
\* underscores.
C24_RunsToUnderscore ==
    n_pc = "done" =>
        /\ chars = Squeezed(Underscored(n_author_name))
        /\ \A i \in 1..(Len(chars) - 1) : ~(chars[i] = "_" /\ chars[i + 1] = "_")

\* C24 is exercised: a name with a run of two characters that are not ASCII
\* letters, one of them a letter, between two different ASCII letters
C24_Witness ==
    /\ n_pc = "done"
    /\ n_author_name = <<"b", "l_stroke", " ", "a">>
    /\ chars = <<"b", "_", "a">>


\* C27, as stated: inside scrape_with_backoff every attempt fetches the
\* variant of the author page that scrape() was asked for, the extended one
\* iff extended_top_books is true, after a Timeout and after an HTTPError.
C27_SameVariant == a_backoff => a_useExt = a_ext


----------------------------------------------------------------------------
(* SpecFetch: BookScraper.fetch_book_id(title, author) with its             *)
(* AuthorScraper: the two calls of scrape() on one scraper, a request a step *)

\* scraper = AuthorScraper(author)
FFetchNew ==
    /\ f_pc = "fetch"
    /\ a_pc = "idle"
    /\ f_scrapes = 0
    /\ AuthorNew(f_author, FALSE)
    /\ UNCHANGED <<idVars, pureVars, batchVars, findVars, kind, bookVars, reqVars>>

\* author = scraper.scrape() has returned;
\* book = cls._find_book_in_author_books(author, title); without a book
\* author = scraper.scrape(extended_top_books=True) is called
FFetchMatch ==
    /\ f_pc = "fetch"
    /\ a_pc = "done"
    /\ f_scrapes' = f_scrapes + 1
    /\ \E bl \in BookLists :
        LET book == find_book_in_author_books([top_books |-> bl], title)
        IN  IF book = None
            THEN /\ f_pc' = "extended"
                 /\ a_pc' = "ready"
                 /\ a_ext' = TRUE
                 /\ UNCHANGED id_
            ELSE /\ f_pc' = "done"
                 /\ id_' = Some(book[1].id)
                 /\ UNCHANGED <<a_pc, a_ext>>
    /\ UNCHANGED <<a_cue, author_id, author_name, a_useExt, a_backoff, a_elapsed, a_n,
                   a_exc, a_findCalls, a_pageReqs>>
    /\ UNCHANGED <<title, f_author, authors_data, f_lookups>>
    /\ UNCHANGED <<idVars, pureVars, batchVars, kind, bookVars, reqVars>>

\* the second scrape() has returned;
\* book = cls._find_book_in_author_books(author, title)
FFetchMatchExtended ==
    /\ f_pc = "extended"
    /\ a_pc = "done"
    /\ f_scrapes' = f_scrapes + 1
    /\ \E bl \in BookLists :
        LET book == find_book_in_author_books([top_books |-> bl], title)
        IN  /\ f_pc' = "done"
            /\ id_' = IF book = None THEN None ELSE Some(book[1].id)
    /\ UNCHANGED <<title, f_author, authors_data, f_lookups>>
    /\ UNCHANGED <<idVars, scrapeVars, batchVars, pureVars>>

\* a scrape() has raised: the exception leaves fetch_book_id
FFetchRaised ==
    /\ f_pc \in {"fetch", "extended"}
    /\ a_pc = "raised"
    /\ f_pc' = "raised"
    /\ f_scrapes' = f_scrapes + 1
    /\ UNCHANGED <<title, f_author, authors_data, id_, f_lookups>>
    /\ UNCHANGED <<idVars, scrapeVars, batchVars, pureVars>>

\* the cues of fetch_book_id: a name, an ID and the empty string
FetchAuthors == {<<"a", " ", "a">>, <<"7", ".", "a">>, <<>>}

\* fetch_book_id is entered by find_book_id without reference data
FetchInit ==
    /\ f_pc = "fetch"
    /\ title \in FindTitles
    /\ f_author \in FetchAuthors
    /\ authors_data = None
    /\ id_ = None
    /\ f_lookups = 0
    /\ f_scrapes = 0
    /\ kind = "fetch"
    /\ AuthorIdle
    /\ BookIdle
    /\ ReqIdle

InitFetch == IdIdle /\ BatchIdle /\ PureIdle /\ FetchInit

NextFetch ==
    \/ FFetchNew
    \/ AConstruct
    \/ AScrape
    \/ AFindAuthorId
    \/ AParseAuthorPage
    \/ ACatchHTTPError
    \/ ACatchTimeout
    \/ ABackoffRetry
    \/ ABackoffGiveUp
    \/ APropagate
    \/ FFetchMatch
    \/ FFetchMatchExtended
    \/ FFetchRaised

SpecFetch == InitFetch /\ [][NextFetch]_vars


\* fetch_book_id was called with an author's name, and the first scrape() has
\* returned: the title is about to be matched for the first time
FirstMatchOfName ==
    /\ f_author = <<"a", " ", "a">>
    /\ f_pc = "fetch"
    /\ a_pc = "done"

\* C25, as the code has it: before the first matching of the title the
\* search was requested at least once and succeeded once, the author page
\* was requested at least once after it and was the last request, and no
\* book page was requested; there is exactly one request of each when scrape()
\* did not enter scrape_with_backoff.
C25_SearchThenPage ==
    /\ (f_author = <<"a", " ", "a">> /\ a_pageReqs > 0) => author_id = Some(FoundAuthorId)
    /\ FirstMatchOfName =>
          /\ a_findCalls >= 1
          /\ a_pageReqs >= 1
          /\ lastReq = "author_page"
          /\ b_pc = "idle"
          /\ b_primaryReqs = 0
          /\ ~a_backoff => (a_findCalls = 1 /\ a_pageReqs = 1)

\* C25 is exercised: the first matching is reached after the search was
\* requested twice, inside scrape_with_backoff
C25_Witness ==
    /\ FirstMatchOfName
    /\ a_backoff
    /\ a_findCalls = 2

\* C25, as stated: exactly one search request and exactly one request of the
\* author page precede the first matching of the title, and no book page.
C25_ExactlyOneEach ==
    FirstMatchOfName =>
        /\ a_findCalls = 1
        /\ a_pageReqs = 1
        /\ b_primaryReqs = 0

\* C26: on one AuthorScraper, over its scrape() calls and backoff retries,
\* author_id is assigned at most once and never changes afterwards, and once
\* it is set find_author_id is not called and no search is requested again,
\* the second scrape() of fetch_book_id included.
C26_AuthorIdOnce ==
    [][/\ author_id # None => author_id' = author_id
       /\ (author_id # None /\ author_id # Some(<<>>))
            => /\ a_findCalls' = a_findCalls
               /\ lastReq' = "search" => UNCHANGED reqVars]_vars

\* C26 is exercised: the second scrape() of fetch_book_id has returned for a
\* name, after one call of find_author_id and a retry of the author page
C26_Witness ==
    /\ f_author = <<"a", " ", "a">>
    /\ f_pc = "extended"
    /\ a_pc = "done"
    /\ a_backoff
    /\ a_findCalls = 1
    /\ a_pageReqs >= 3


\* C28, as stated: scaled_dist conserves the votes: the votes of the rescaled
\* ranks add up to total.
C28_ConservesVotes ==
    (r_pc = "done" /\ r_query = "scaled_dist") => SumVotes(r_scaled) = total


----------------------------------------------------------------------------
(* SpecShelves: the loop of BookScraper._parse_shelves_page over the        *)
(* 'shelfStat' tags of the page, a tag a step                               *)

\* the most 'shelfStat' tags of a page
MaxShelves == 3

\* a tag: the text of its 'a' tag, and the number of its 'people' div if it
\* has one
ShelfTags ==
    [name : {"to-read", "fantasy"}, shelvings : {None, Some(1), Some(2)}]

\* shelves[key] = value of an OrderedDict: the value of a key it holds is
\* replaced in place, a new key is put at the end
RECURSIVE SetItem(_, _, _)
SetItem(items, key, value) ==
    IF items = <<>> THEN <<<<key, value>>>>
    ELSE IF Head(items)[1] = key THEN <<<<key, value>>>> \o Tail(items)
    ELSE <<Head(items)>> \o SetItem(Tail(items), key, value)

\* one turn of 'for tag in shelf_tags'
STakeTag ==
    /\ s_pc = "loop"
    /\ s_i < Len(shelf_tags)
    /\ s_i' = s_i + 1
    /\ LET tag == shelf_tags[s_i + 1]
       IN  IF tag.shelvings = None
           THEN UNCHANGED shelves
           ELSE shelves' = SetItem(shelves, tag.shelvings[1], tag.name)
    /\ UNCHANGED <<s_pc, shelf_tags>>
    /\ UNCHANGED <<idVars, scrapeVars, batchVars, findVars, matchVars, distVars, renownVars,
                   nameVars>>

\* return shelves, total_shelves_created
SReturn ==
    /\ s_pc = "loop"
    /\ s_i = Len(shelf_tags)
    /\ s_pc' = "done"
    /\ UNCHANGED <<shelf_tags, s_i, shelves>>
    /\ UNCHANGED <<idVars, scrapeVars, batchVars, findVars, matchVars, distVars, renownVars,
                   nameVars>>

\* BookStats.total_top_shelvings: sum(s for s in self.top_shelves), the keys
RECURSIVE total_top_shelvings(_)
total_top_shelvings(top_shelves) ==
    IF top_shelves = <<>> THEN 0
    ELSE Head(top_shelves)[1] + total_top_shelvings(Tail(top_shelves))

ShelvesInit ==
    /\ s_pc = "loop"
    /\ shelf_tags \in SeqsUpTo(ShelfTags, MaxShelves)
    /\ s_i = 0
    /\ shelves = <<>>

InitShelves ==
    /\ IdIdle /\ ScrapeIdle /\ BatchIdle /\ FindIdle
    /\ MatchIdle /\ DistIdle /\ RenownIdle /\ NameIdle /\ ShelvesInit

NextShelves ==
    \/ STakeTag
    \/ SReturn

SpecShelves == InitShelves /\ [][NextShelves]_vars

\* the shelvings of the tags that have one, added up
RECURSIVE ShelvingsOnPage(_)
ShelvingsOnPage(tags) ==
    IF tags = <<>> THEN 0
    ELSE (IF Head(tags).shelvings = None THEN 0 ELSE Head(tags).shelvings[1])
         + ShelvingsOnPage(Tail(tags))

\* C29, as stated: top_shelves has one entry for each shelf of the page that
\* has a shelving count, also when two shelves have the same count, and
\* total_top_shelvings is the sum of all their counts.
C29_EntryPerShelf ==
    s_pc = "done" =>
        /\ Len(shelves) = Cardinality({i \in 1..Len(shelf_tags) :
                                          shelf_tags[i].shelvings # None})
        /\ total_top_shelvings(shelves) = ShelvingsOnPage(shelf_tags)

----------------------------------------------------------------------------
(* A claim about is_goodreads_id and numeric_id *)

\* whether the string begins with a digit
BeginsWithDigit(s) == Len(s) > 0 /\ isdigit(s[1])

\* C30: every string accepted by is_goodreads_id begins with a non-empty run
\* of digits, so numeric_id, which needs a digit to be found, never raises
\* on an accepted ID
C30_AcceptedHasNumericPart ==
    (idChecked /\ idResult) => (BeginsWithDigit(text) /\ HasDigit(text))

====
